---- MODULE Spec2Model ----
(***************************************************************************)
(* The licensing ledger of src/contracts: ModelRegistry (asset registry),  *)
(* ModelMarketplace (pricing configuration), ModelToken (license ledger)   *)
(* and DerivativeRoyaltyRegistry (royalty ledger).                          *)
(*                                                                         *)
(* Every external function is an operator from a world (the storage of the *)
(* four contracts, the block timestamp and the record of the running call) *)
(* to a result [err, w]: err = "" and the new world when the call returns,  *)
(* the revert message otherwise.  An action is one transaction: it commits *)
(* the new storage when the call returns and leaves storage alone when it   *)
(* reverts; in both cases it records the call in the variable out.          *)
(***************************************************************************)
EXTENDS Integers, Sequences, FiniteSets, TLC

VARIABLES registry, marketplace, token, royaltyRegistry, now, out, claimed,
          rateAtPurchase

vars == <<registry, marketplace, token, royaltyRegistry, now, out, claimed,
          rateAtPurchase>>

(* ------------------------------ bounds -------------------------------- *)

\* ids 0 .. MaxModels-1 can be registered
MaxModels == 2
\* ids 0 .. MaxTokens-1 can be minted
MaxTokens == 2
\* block.timestamp ranges over 0 .. MaxTime
MaxTime == 3
\* a license left to lapse is followed up to MaxTime + MaxLapse
MaxLapse == 3
\* payment ids 0 .. MaxPayments-1 can be allocated
MaxPayments == 2
\* variations per model
MaxVariations == 2
\* derivatives counted per model
MaxDerivatives == 2

(* ----------------------- identities and inputs ------------------------ *)

NullAddr == "0x0"
MarketplaceAddr == "ModelMarketplace"
TokenAddr == "ModelToken"
RoyaltyAddr == "DerivativeRoyaltyRegistry"
\* the deployer of the four contracts (Ownable(msg.sender))
Admin == "admin"
Users == {Admin, "alice", "bob"}

MaxId == IF MaxModels > MaxTokens THEN MaxModels ELSE MaxTokens
\* the keys of the id-keyed mappings that the model reads or writes (a
\* transaction allocates at most two ids before its result is bounded)
Ids == 0 .. MaxId + 1
PaymentIds == 0 .. MaxPayments

MAX_ROYALTY_BPS == 2000
MAX_DERIVATIVE_ROYALTY_BPS == 2000

(* ---------------------- storage default values ------------------------ *)

\* struct Model, all fields zero
NoModel ==
  [creator |-> NullAddr, createdAt |-> 0, updatedAt |-> 0, modelIPFS |-> "",
   metadataIPFS |-> "", exists |-> FALSE, active |-> FALSE, derivativeCount |-> 0]

\* struct LicenseConfig, all fields zero
NoLicenseConfig ==
  [personalPrice |-> 0, indiePrice |-> 0, commercialPrice |-> 0, enterprisePrice |-> 0,
   personalDuration |-> 0, indieDuration |-> 0, commercialDuration |-> 0,
   enterpriseDuration |-> 0]

\* struct RoyaltyInfo, all fields zero
NoRoyaltyInfo == [recipient |-> NullAddr, bps |-> 0]

\* struct PurchaseSnapshot (with its LicenseSnapshot), all fields zero
NoPurchaseSnapshot ==
  [modelId |-> 0, purchasedAt |-> 0, pricePaid |-> 0,
   license |-> [licenseType |-> "", purchasedAt |-> 0, expiresAt |-> 0, duration |-> 0],
   variationIds |-> <<>>, metadataSnapshot |-> "", royaltyBpsAtPurchase |-> 0,
   burned |-> FALSE, downloadKey |-> <<>>]

\* struct DerivativeRoyalty, all fields zero
NoDerivativeRoyalty ==
  [originalModelId |-> 0, originalCreator |-> NullAddr, royaltyBps |-> 0, active |-> FALSE]

\* struct RoyaltyPayment, all fields zero
NoRoyaltyPayment ==
  [from |-> NullAddr, to |-> NullAddr, amount |-> 0, modelId |-> 0,
   paymentType |-> "", message |-> "", timestamp |-> 0]

(* ------------------------- the running call --------------------------- *)

\* no re-entrant call is attached to the transaction
NoHook == [fn |-> "none", sender |-> NullAddr, value |-> 0, id |-> 0, licenseType |-> ""]

\* the record of a call before it has done anything: the funds sent out so
\* far, the re-entrant call its first payee makes (hook), what that call
\* returned (reentry), and the storage as it was at the first outward transfer
NoIo(hook) ==
  [transfers |-> <<>>, hook |-> hook, reentry |-> "none",
   atTransfer |-> [set |-> FALSE, at |-> <<>>]]

Ok(w) == [err |-> "", w |-> w]
Revert(w, msg) == [err |-> msg, w |-> w]
Val(v) == [err |-> "", val |-> v]
Err(msg) == [err |-> msg, val |-> 0]

\* the contracts' storage, as held in a world
Storage(w) ==
  [registry |-> w.registry, marketplace |-> w.marketplace,
   token |-> w.token, royalty |-> w.royalty]

(* ========================== ModelRegistry ============================= *)

\* Counters.Counter _modelIdCounter, .current()
getModelCount(w) == w.registry.modelIdCounter

\* registerModel accepting an empty metadata reference
registerModelAnyMetadata(w, sender, modelIPFS, metadataIPFS) ==
  IF modelIPFS = "" THEN Revert(w, "ModelRegistry: Model IPFS required")
  ELSE
    LET modelId == w.registry.modelIdCounter
        m == [creator |-> sender, createdAt |-> w.now, updatedAt |-> w.now,
              modelIPFS |-> modelIPFS, metadataIPFS |-> metadataIPFS,
              exists |-> TRUE, active |-> TRUE, derivativeCount |-> 0]
    IN Ok([w EXCEPT !.registry.modelIdCounter = modelId + 1,
                    !.registry.models[modelId] = m,
                    !.registry.creatorModels[sender] = Append(@, modelId)])

registerModel(w, sender, modelIPFS, metadataIPFS) ==
  IF modelIPFS = "" THEN Revert(w, "ModelRegistry: Model IPFS required")
  ELSE IF metadataIPFS = "" THEN Revert(w, "ModelRegistry: Metadata IPFS required")
  ELSE
    LET modelId == w.registry.modelIdCounter
        m == [creator |-> sender, createdAt |-> w.now, updatedAt |-> w.now,
              modelIPFS |-> modelIPFS, metadataIPFS |-> metadataIPFS,
              exists |-> TRUE, active |-> TRUE, derivativeCount |-> 0]
    IN Ok([w EXCEPT !.registry.modelIdCounter = modelId + 1,
                    !.registry.models[modelId] = m,
                    !.registry.creatorModels[sender] = Append(@, modelId)])

\* registerDerivativeModel linking the derivative without counting it
registerDerivativeModelUncounted(w, sender, modelIPFS, metadataIPFS, originalModelId) ==
  IF ~w.registry.models[originalModelId].exists
  THEN Revert(w, "ModelRegistry: Model does not exist")
  ELSE
    LET r == registerModel(w, sender, modelIPFS, metadataIPFS) IN
    IF r.err # "" THEN r
    ELSE Ok([r.w EXCEPT !.registry.modelDerivatives[originalModelId] =
                           Append(@, w.registry.modelIdCounter)])

registerDerivativeModel(w, sender, modelIPFS, metadataIPFS, originalModelId) ==
  IF ~w.registry.models[originalModelId].exists
  THEN Revert(w, "ModelRegistry: Model does not exist")
  ELSE
    LET r == registerModel(w, sender, modelIPFS, metadataIPFS)
        modelId == w.registry.modelIdCounter
    IN IF r.err # "" THEN r
       ELSE Ok([r.w EXCEPT !.registry.modelDerivatives[originalModelId] = Append(@, modelId),
                           !.registry.models[originalModelId].derivativeCount = @ + 1])

\* updateMetadata writing the content reference as well
updateMetadataAndContent(w, sender, modelId, newMetadataIPFS) ==
  IF ~w.registry.models[modelId].exists
  THEN Revert(w, "ModelRegistry: Model does not exist")
  ELSE IF w.registry.models[modelId].creator # sender
  THEN Revert(w, "ModelRegistry: Not model creator")
  ELSE IF newMetadataIPFS = ""
  THEN Revert(w, "ModelRegistry: Metadata IPFS required")
  ELSE Ok([w EXCEPT !.registry.models[modelId].metadataIPFS = newMetadataIPFS,
                    !.registry.models[modelId].modelIPFS = newMetadataIPFS,
                    !.registry.models[modelId].updatedAt = w.now])

updateMetadata(w, sender, modelId, newMetadataIPFS) ==
  IF ~w.registry.models[modelId].exists
  THEN Revert(w, "ModelRegistry: Model does not exist")
  ELSE IF w.registry.models[modelId].creator # sender
  THEN Revert(w, "ModelRegistry: Not model creator")
  ELSE IF newMetadataIPFS = ""
  THEN Revert(w, "ModelRegistry: Metadata IPFS required")
  ELSE Ok([w EXCEPT !.registry.models[modelId].metadataIPFS = newMetadataIPFS,
                    !.registry.models[modelId].updatedAt = w.now])

\* toggleModelActive without onlyCreator
toggleModelActiveAnyone(w, sender, modelId) ==
  IF ~w.registry.models[modelId].exists
  THEN Revert(w, "ModelRegistry: Model does not exist")
  ELSE Ok([w EXCEPT !.registry.models[modelId].active = ~@])

toggleModelActive(w, sender, modelId) ==
  IF ~w.registry.models[modelId].exists
  THEN Revert(w, "ModelRegistry: Model does not exist")
  ELSE IF w.registry.models[modelId].creator # sender
  THEN Revert(w, "ModelRegistry: Not model creator")
  ELSE Ok([w EXCEPT !.registry.models[modelId].active = ~@])

incrementDerivativeCount(w, sender, modelId) ==
  IF ~w.registry.models[modelId].exists
  THEN Revert(w, "ModelRegistry: Model does not exist")
  ELSE IF sender # w.registry.marketplace
  THEN Revert(w, "ModelRegistry: Only marketplace can call")
  ELSE Ok([w EXCEPT !.registry.models[modelId].derivativeCount = @ + 1])

isModelActive(w, modelId) ==
  w.registry.models[modelId].exists /\ w.registry.models[modelId].active

setMarketplace(w, sender, _marketplace) ==
  IF sender # w.registry.owner
  THEN Revert(w, "Ownable: caller is not the owner")
  ELSE Ok([w EXCEPT !.registry.marketplace = _marketplace])

(* ========================= ModelMarketplace =========================== *)

setLicenseConfig(w, sender, modelId, config) ==
  IF ~w.registry.models[modelId].exists
  THEN Revert(w, "Marketplace: Model does not exist")
  ELSE IF w.registry.models[modelId].creator # sender
  THEN Revert(w, "Marketplace: Not model creator")
  ELSE Ok([w EXCEPT !.marketplace.licenseConfigs[modelId] = config])

setLicensePrice(w, sender, modelId, licenseType, price) ==
  IF ~w.registry.models[modelId].exists
  THEN Revert(w, "Marketplace: Model does not exist")
  ELSE IF w.registry.models[modelId].creator # sender
  THEN Revert(w, "Marketplace: Not model creator")
  ELSE IF licenseType = "personal"
  THEN Ok([w EXCEPT !.marketplace.licenseConfigs[modelId].personalPrice = price])
  ELSE IF licenseType = "indie"
  THEN Ok([w EXCEPT !.marketplace.licenseConfigs[modelId].indiePrice = price])
  ELSE IF licenseType = "commercial"
  THEN Ok([w EXCEPT !.marketplace.licenseConfigs[modelId].commercialPrice = price])
  ELSE IF licenseType = "enterprise"
  THEN Ok([w EXCEPT !.marketplace.licenseConfigs[modelId].enterprisePrice = price])
  ELSE Revert(w, "Marketplace: Invalid license type")

\* setRoyalty without the cap on the rate
setRoyaltyUncapped(w, sender, modelId, recipient, bps) ==
  IF ~w.registry.models[modelId].exists
  THEN Revert(w, "Marketplace: Model does not exist")
  ELSE IF w.registry.models[modelId].creator # sender
  THEN Revert(w, "Marketplace: Not model creator")
  ELSE IF recipient = NullAddr THEN Revert(w, "Marketplace: Invalid recipient")
  ELSE Ok([w EXCEPT !.marketplace.royalties[modelId] = [recipient |-> recipient, bps |-> bps]])

setRoyalty(w, sender, modelId, recipient, bps) ==
  IF ~w.registry.models[modelId].exists
  THEN Revert(w, "Marketplace: Model does not exist")
  ELSE IF w.registry.models[modelId].creator # sender
  THEN Revert(w, "Marketplace: Not model creator")
  ELSE IF ~(bps <= MAX_ROYALTY_BPS) THEN Revert(w, "Marketplace: Royalty too high")
  ELSE IF recipient = NullAddr THEN Revert(w, "Marketplace: Invalid recipient")
  ELSE Ok([w EXCEPT !.marketplace.royalties[modelId] = [recipient |-> recipient, bps |-> bps]])

\* returns (receiver, royaltyAmount)
royaltyInfo(w, modelId, salePrice) ==
  LET royalty == w.marketplace.royalties[modelId] IN
  IF royalty.recipient = NullAddr
  THEN [receiver |-> NullAddr, royaltyAmount |-> 0]
  ELSE [receiver |-> royalty.recipient,
        royaltyAmount |-> (salePrice * royalty.bps) \div 10000]

addVariation(w, sender, modelId, name, price, metadataIPFS) ==
  IF ~w.registry.models[modelId].exists
  THEN Revert(w, "Marketplace: Model does not exist")
  ELSE IF w.registry.models[modelId].creator # sender
  THEN Revert(w, "Marketplace: Not model creator")
  ELSE Ok([w EXCEPT !.marketplace.variations[modelId] =
             Append(@, [name |-> name, price |-> price,
                        metadataIPFS |-> metadataIPFS, active |-> TRUE])])

\* variation indexes are 0-based in the code; the sequence holds index i at i+1
toggleVariationActive(w, sender, modelId, variationIndex) ==
  IF ~w.registry.models[modelId].exists
  THEN Revert(w, "Marketplace: Model does not exist")
  ELSE IF w.registry.models[modelId].creator # sender
  THEN Revert(w, "Marketplace: Not model creator")
  ELSE IF ~(variationIndex < Len(w.marketplace.variations[modelId]))
  THEN Revert(w, "Marketplace: Invalid variation index")
  ELSE Ok([w EXCEPT !.marketplace.variations[modelId][variationIndex + 1].active = ~@])

\* setMaxSupply without the comparison with the sold count
setMaxSupplyAnyCap(w, sender, modelId, maxSupply) ==
  IF ~w.registry.models[modelId].exists
  THEN Revert(w, "Marketplace: Model does not exist")
  ELSE IF w.registry.models[modelId].creator # sender
  THEN Revert(w, "Marketplace: Not model creator")
  ELSE Ok([w EXCEPT !.marketplace.maxSupplies[modelId] = maxSupply])

setMaxSupply(w, sender, modelId, maxSupply) ==
  IF ~w.registry.models[modelId].exists
  THEN Revert(w, "Marketplace: Model does not exist")
  ELSE IF w.registry.models[modelId].creator # sender
  THEN Revert(w, "Marketplace: Not model creator")
  ELSE IF ~(maxSupply = 0 \/ maxSupply >= w.marketplace.soldCounts[modelId])
  THEN Revert(w, "Marketplace: Supply below sold count")
  ELSE Ok([w EXCEPT !.marketplace.maxSupplies[modelId] = maxSupply])

\* toggleForSale without modelExists and onlyCreator
toggleForSaleAnyone(w, sender, modelId) ==
  Ok([w EXCEPT !.marketplace.forSale[modelId] = ~@])

toggleForSale(w, sender, modelId) ==
  IF ~w.registry.models[modelId].exists
  THEN Revert(w, "Marketplace: Model does not exist")
  ELSE IF w.registry.models[modelId].creator # sender
  THEN Revert(w, "Marketplace: Not model creator")
  ELSE Ok([w EXCEPT !.marketplace.forSale[modelId] = ~@])

\* no modifier: any sender
incrementSoldCount(w, sender, modelId) ==
  Ok([w EXCEPT !.marketplace.soldCounts[modelId] = @ + 1])

getLicensePrice(w, modelId, licenseType) ==
  LET license == w.marketplace.licenseConfigs[modelId] IN
  IF licenseType = "personal" THEN Val(license.personalPrice)
  ELSE IF licenseType = "indie" THEN Val(license.indiePrice)
  ELSE IF licenseType = "commercial" THEN Val(license.commercialPrice)
  ELSE IF licenseType = "enterprise" THEN Val(license.enterprisePrice)
  ELSE Err("Marketplace: Invalid license type")

getLicenseDuration(w, modelId, licenseType) ==
  LET license == w.marketplace.licenseConfigs[modelId] IN
  IF licenseType = "personal" THEN Val(license.personalDuration)
  ELSE IF licenseType = "indie" THEN Val(license.indieDuration)
  ELSE IF licenseType = "commercial" THEN Val(license.commercialDuration)
  ELSE IF licenseType = "enterprise" THEN Val(license.enterpriseDuration)
  ELSE Err("Marketplace: Invalid license type")

\* canPurchase without the supply cap
canPurchaseAnySupply(w, modelId) ==
  IF ~isModelActive(w, modelId) THEN FALSE
  ELSE IF ~w.marketplace.forSale[modelId] THEN FALSE
  ELSE TRUE

canPurchase(w, modelId) ==
  IF ~isModelActive(w, modelId) THEN FALSE
  ELSE IF ~w.marketplace.forSale[modelId] THEN FALSE
  ELSE LET maxSupply == w.marketplace.maxSupplies[modelId] IN
       IF maxSupply > 0 /\ w.marketplace.soldCounts[modelId] >= maxSupply THEN FALSE
       ELSE TRUE

\* the loop of getTotalPrice from position i on, total so far in total
RECURSIVE TotalPriceFrom(_, _, _, _, _)
TotalPriceFrom(w, modelId, variationIds, i, total) ==
  IF i > Len(variationIds) THEN Val(total)
  ELSE IF ~(variationIds[i] < Len(w.marketplace.variations[modelId]))
  THEN Err("Marketplace: Invalid variation ID")
  ELSE IF ~w.marketplace.variations[modelId][variationIds[i] + 1].active
  THEN Err("Marketplace: Variation not active")
  ELSE TotalPriceFrom(w, modelId, variationIds, i + 1,
                      total + w.marketplace.variations[modelId][variationIds[i] + 1].price)

\* getTotalPrice leaving the variations out
getTotalPriceOfLicense(w, modelId, licenseType, variationIds) ==
  getLicensePrice(w, modelId, licenseType)

getTotalPrice(w, modelId, licenseType, variationIds) ==
  LET base == getLicensePrice(w, modelId, licenseType) IN
  IF base.err # "" THEN base
  ELSE TotalPriceFrom(w, modelId, variationIds, 1, base.val)

\* getActiveVariations returning the whole list
getAllVariations(w, modelId) ==
  w.marketplace.variations[modelId]

\* the filtered copy built by the two loops of getActiveVariations
getActiveVariations(w, modelId) ==
  SelectSeq(w.marketplace.variations[modelId], LAMBDA v : v.active)

(* ====================== outward value transfers ======================= *)

\* the call a payee makes back into the ledger while it is being paid
RECURSIVE Reenter(_, _)

\* payable(to).transfer(amount) by the contract whose storage is w[from]:
\* the funds leave the contract and control passes to the payee, who may
\* refuse them (the transfer and the transaction revert) or call back in;
\* the gas stipend of transfer is not modelled, so the payee can always
\* afford the call back; kind names the statement that pays
Send(w, from, to, amount, kind) ==
  IF w[from].balance < amount THEN Revert(w, "transfer failed")
  ELSE IF w.io.hook.fn = "reject" THEN Revert(w, "transfer failed")
  ELSE
    LET paid == [w EXCEPT ![from].balance = @ - amount,
                          !.io.transfers = Append(@, [to |-> to, amount |-> amount, kind |-> kind]),
                          !.io.atTransfer =
                              IF @.set THEN @ ELSE [set |-> TRUE, at |-> Storage(w)]]
    IN IF paid.io.hook.fn = "none" THEN Ok(paid)
       ELSE Reenter([paid EXCEPT !.io.hook = NoHook], [paid.io.hook EXCEPT !.sender = to])

(* ============================ ModelToken ============================== *)

\* ERC721._exists: the token has an owner
_exists(w, tokenId) == w.token.owners[tokenId] # NullAddr

\* ERC721.ownerOf
ownerOf(w, tokenId) == w.token.owners[tokenId]

\* isLicenseValid ending at the expiry instead of after it
isLicenseValidBeforeExpiry(w, tokenId) ==
  LET snapshot == w.token.purchaseSnapshots[tokenId] IN
  IF snapshot.license.expiresAt = 0 THEN TRUE
  ELSE w.now < snapshot.license.expiresAt

isLicenseValid(w, tokenId) ==
  LET snapshot == w.token.purchaseSnapshots[tokenId] IN
  IF snapshot.license.expiresAt = 0 THEN TRUE
  ELSE w.now <= snapshot.license.expiresAt

getLicenseTimeRemaining(w, tokenId) ==
  LET snapshot == w.token.purchaseSnapshots[tokenId] IN
  IF snapshot.license.expiresAt = 0 THEN "max"
  ELSE IF w.now >= snapshot.license.expiresAt THEN 0
  ELSE snapshot.license.expiresAt - w.now

canDownload(w, tokenId) ==
  w.token.purchaseSnapshots[tokenId].burned
  /\ w.token.purchaseSnapshots[tokenId].downloadKey # <<>>

\* "key_" tokenId "_" timestamp "_" keccak256(tokenId, timestamp, msg.sender):
\* the hash is kept as the triple it is taken of
_generateDownloadKey(w, sender, tokenId) ==
  <<"key_", tokenId, w.now, <<tokenId, w.now, sender>>>>

\* the loop of _update: the first slot holding tokenId gets the last element,
\* and the last element is popped
RemoveToken(fromTokens, tokenId) ==
  IF \E i \in 1 .. Len(fromTokens) : fromTokens[i] = tokenId
  THEN LET i == CHOOSE k \in 1 .. Len(fromTokens) :
                  /\ fromTokens[k] = tokenId
                  /\ \A j \in 1 .. k - 1 : fromTokens[j] # tokenId
           swapped == [fromTokens EXCEPT ![i] = fromTokens[Len(fromTokens)]]
       IN SubSeq(swapped, 1, Len(fromTokens) - 1)
  ELSE fromTokens

\* _update leaving the previous owner's index as it is
_updateKeepingIndex(w, to, tokenId, auth) ==
  LET from == w.token.owners[tokenId]
      indexed ==
        IF from # NullAddr /\ to # NullAddr
        THEN [w EXCEPT !.token.userTokens[to] = Append(@, tokenId)]
        ELSE w
  IN IF auth # NullAddr /\ from = NullAddr THEN Revert(w, "ERC721NonexistentToken")
     ELSE IF auth # NullAddr /\ from # auth THEN Revert(w, "ERC721InsufficientApproval")
     ELSE Ok([indexed EXCEPT !.token.owners[tokenId] = to])

\* _update(to, tokenId, auth): the override's index upkeep, then ERC721._update
\* (auth, when not null, must be the owner; the owner becomes to)
_update(w, to, tokenId, auth) ==
  LET from == w.token.owners[tokenId]
      indexed ==
        IF from # NullAddr /\ to # NullAddr
        THEN LET removed == [w EXCEPT !.token.userTokens[from] = RemoveToken(@, tokenId)]
             IN [removed EXCEPT !.token.userTokens[to] = Append(@, tokenId)]
        ELSE w
  IN IF auth # NullAddr /\ from = NullAddr THEN Revert(w, "ERC721NonexistentToken")
     ELSE IF auth # NullAddr /\ from # auth THEN Revert(w, "ERC721InsufficientApproval")
     ELSE Ok([indexed EXCEPT !.token.owners[tokenId] = to])

\* ERC721._mint
_mint(w, to, tokenId) ==
  IF to = NullAddr THEN Revert(w, "ERC721InvalidReceiver")
  ELSE IF w.token.owners[tokenId] # NullAddr THEN Revert(w, "ERC721InvalidSender")
  ELSE _update(w, to, tokenId, NullAddr)

\* ERC721._burn
_burn(w, tokenId) ==
  IF w.token.owners[tokenId] = NullAddr THEN Revert(w, "ERC721NonexistentToken")
  ELSE _update(w, NullAddr, tokenId, NullAddr)

\* ERC721.transferFrom
transferFrom(w, sender, from, to, tokenId) ==
  IF to = NullAddr THEN Revert(w, "ERC721InvalidReceiver")
  ELSE LET previousOwner == w.token.owners[tokenId]
           r == _update(w, to, tokenId, sender)
       IN IF r.err # "" THEN r
          ELSE IF previousOwner # from THEN Revert(w, "ERC721IncorrectOwner")
          ELSE r

_distributePayment(w, creator, totalPrice, royaltyRecipient, royaltyBps) ==
  LET royaltyAmount == (totalPrice * royaltyBps) \div 10000
      creatorAmount == totalPrice - royaltyAmount
  IN IF royaltyAmount > totalPrice THEN Revert(w, "Panic: arithmetic underflow")
     ELSE LET c == Send(w, "token", creator, creatorAmount, "creator") IN
          IF c.err # "" THEN c
          ELSE IF royaltyAmount > 0 /\ royaltyRecipient # NullAddr
          THEN Send(c.w, "token", royaltyRecipient, royaltyAmount, "royalty")
          ELSE c

\* purchaseModel counting the sale only after the payout
PurchaseEffectsPayFirst(w, sender, modelId, licenseType, variationIds, totalPrice) ==
  LET model == w.registry.models[modelId]
      info == royaltyInfo(w, modelId, totalPrice)
      duration == getLicenseDuration(w, modelId, licenseType).val
      tokenId == w.token.tokenIdCounter
      snapshot ==
        [modelId |-> modelId, purchasedAt |-> w.now, pricePaid |-> totalPrice,
         license |-> [licenseType |-> licenseType, purchasedAt |-> w.now,
                      expiresAt |-> IF duration > 0 THEN w.now + duration ELSE 0,
                      duration |-> duration],
         variationIds |-> variationIds, metadataSnapshot |-> model.metadataIPFS,
         royaltyBpsAtPurchase |-> info.royaltyAmount, burned |-> FALSE,
         downloadKey |-> <<>>]
      minted == _mint([w EXCEPT !.token.tokenIdCounter = @ + 1,
                                !.token.purchaseSnapshots[tokenId] = snapshot],
                      sender, tokenId)
  IN IF minted.err # "" THEN minted
     ELSE LET pushed == [minted.w EXCEPT !.token.userTokens[sender] = Append(@, tokenId),
                                         !.token.modelPurchaseCount[modelId] = @ + 1]
              paid == _distributePayment(pushed, model.creator, totalPrice,
                                         info.receiver, info.royaltyAmount)
          IN IF paid.err # "" THEN paid
             ELSE incrementSoldCount(paid.w, TokenAddr, modelId)

\* the body of purchaseModel after its checks: lines 328 to 367
PurchaseEffects(w, sender, modelId, licenseType, variationIds, totalPrice) ==
  LET model == w.registry.models[modelId]
      info == royaltyInfo(w, modelId, totalPrice)
      royaltyRecipient == info.receiver
      \* the second value royaltyInfo returns, taken as the rate
      royaltyBps == info.royaltyAmount
      duration == getLicenseDuration(w, modelId, licenseType).val
      expiresAt == IF duration > 0 THEN w.now + duration ELSE 0
      tokenId == w.token.tokenIdCounter
      snapshot ==
        [modelId |-> modelId, purchasedAt |-> w.now, pricePaid |-> totalPrice,
         license |-> [licenseType |-> licenseType, purchasedAt |-> w.now,
                      expiresAt |-> expiresAt, duration |-> duration],
         variationIds |-> variationIds, metadataSnapshot |-> model.metadataIPFS,
         royaltyBpsAtPurchase |-> royaltyBps, burned |-> FALSE, downloadKey |-> <<>>]
      created == [w EXCEPT !.token.tokenIdCounter = @ + 1,
                           !.token.purchaseSnapshots[tokenId] = snapshot]
      minted == _mint(created, sender, tokenId)
  IN IF minted.err # "" THEN minted
     ELSE LET pushed == [minted.w EXCEPT !.token.userTokens[sender] = Append(@, tokenId),
                                         !.token.modelPurchaseCount[modelId] = @ + 1]
              counted == incrementSoldCount(pushed, TokenAddr, modelId)
          IN _distributePayment(counted.w, model.creator, totalPrice,
                                royaltyRecipient, royaltyBps)

purchaseModel(w, sender, value, modelId, licenseType, variationIds) ==
  LET funded == [w EXCEPT !.token.balance = @ + value]
      totalPrice == getTotalPrice(w, modelId, licenseType, variationIds)
  IN IF ~_exists(w, modelId) THEN Revert(w, "ModelToken: Token does not exist")
     ELSE IF ~canPurchase(w, modelId) THEN Revert(w, "ModelToken: Model not available")
     ELSE IF totalPrice.err # "" THEN Revert(w, totalPrice.err)
     ELSE IF ~(value >= totalPrice.val) THEN Revert(w, "ModelToken: Insufficient payment")
     ELSE PurchaseEffects(funded, sender, modelId, licenseType, variationIds, totalPrice.val)

\* burnForDownload setting the flag and the key but keeping the token
burnForDownloadKeepToken(w, sender, tokenId) ==
  IF ~_exists(w, tokenId) THEN Revert(w, "ModelToken: Token does not exist")
  ELSE IF ownerOf(w, tokenId) # sender THEN Revert(w, "ModelToken: Not token owner")
  ELSE IF w.token.purchaseSnapshots[tokenId].burned
  THEN Revert(w, "ModelToken: Already burned")
  ELSE IF ~isLicenseValid(w, tokenId) THEN Revert(w, "ModelToken: License expired")
  ELSE Ok([w EXCEPT !.token.purchaseSnapshots[tokenId].burned = TRUE,
                    !.token.purchaseSnapshots[tokenId].downloadKey =
                        _generateDownloadKey(w, sender, tokenId)])

\* burnForDownload without the check of the license's validity
burnForDownloadAnyTime(w, sender, tokenId) ==
  IF ~_exists(w, tokenId) THEN Revert(w, "ModelToken: Token does not exist")
  ELSE IF ownerOf(w, tokenId) # sender THEN Revert(w, "ModelToken: Not token owner")
  ELSE IF w.token.purchaseSnapshots[tokenId].burned
  THEN Revert(w, "ModelToken: Already burned")
  ELSE LET downloadKey == _generateDownloadKey(w, sender, tokenId) IN
       _burn([w EXCEPT !.token.purchaseSnapshots[tokenId].burned = TRUE,
                       !.token.purchaseSnapshots[tokenId].downloadKey = downloadKey],
             tokenId)

burnForDownload(w, sender, tokenId) ==
  IF ~_exists(w, tokenId) THEN Revert(w, "ModelToken: Token does not exist")
  ELSE IF ownerOf(w, tokenId) # sender THEN Revert(w, "ModelToken: Not token owner")
  ELSE IF w.token.purchaseSnapshots[tokenId].burned
  THEN Revert(w, "ModelToken: Already burned")
  ELSE IF ~isLicenseValid(w, tokenId) THEN Revert(w, "ModelToken: License expired")
  ELSE LET downloadKey == _generateDownloadKey(w, sender, tokenId) IN
       _burn([w EXCEPT !.token.purchaseSnapshots[tokenId].burned = TRUE,
                       !.token.purchaseSnapshots[tokenId].downloadKey = downloadKey],
             tokenId)

\* setDownloadKey without onlyOwner
setDownloadKeyAnyone(w, sender, tokenId, downloadKey) ==
  IF ~w.token.purchaseSnapshots[tokenId].burned
  THEN Revert(w, "ModelToken: Token not burned")
  ELSE Ok([w EXCEPT !.token.purchaseSnapshots[tokenId].downloadKey = downloadKey])

setDownloadKey(w, sender, tokenId, downloadKey) ==
  IF sender # w.token.owner THEN Revert(w, "Ownable: caller is not the owner")
  ELSE IF ~w.token.purchaseSnapshots[tokenId].burned
  THEN Revert(w, "ModelToken: Token not burned")
  ELSE Ok([w EXCEPT !.token.purchaseSnapshots[tokenId].downloadKey = downloadKey])

\* renewLicense restarting the license from the current time
RenewEffectsFromNow(w, tokenId, renewalPrice) ==
  LET snapshot == w.token.purchaseSnapshots[tokenId]
      modelId == snapshot.modelId
      newExpiry == w.now + snapshot.license.duration
      extended == [w EXCEPT !.token.purchaseSnapshots[tokenId].license.expiresAt = newExpiry]
      royaltyAmount == (renewalPrice * snapshot.royaltyBpsAtPurchase) \div 10000
  IN IF royaltyAmount > renewalPrice THEN Revert(w, "Panic: arithmetic underflow")
     ELSE LET c == Send(extended, "token", w.registry.models[modelId].creator,
                        renewalPrice - royaltyAmount, "creator") IN
          IF c.err # "" THEN c
          ELSE IF royaltyAmount > 0
                  /\ royaltyInfo(c.w, modelId, renewalPrice).receiver # NullAddr
          THEN Send(c.w, "token", royaltyInfo(c.w, modelId, renewalPrice).receiver,
                    royaltyAmount, "royalty")
          ELSE c

\* the body of renewLicense after its checks: lines 432 to 447
RenewEffects(w, tokenId, renewalPrice) ==
  LET snapshot == w.token.purchaseSnapshots[tokenId]
      modelId == snapshot.modelId
      newExpiry == snapshot.license.expiresAt + snapshot.license.duration
      extended == [w EXCEPT !.token.purchaseSnapshots[tokenId].license.expiresAt = newExpiry]
      model == w.registry.models[modelId]
      royaltyAmount == (renewalPrice * snapshot.royaltyBpsAtPurchase) \div 10000
      creatorAmount == renewalPrice - royaltyAmount
  IN IF royaltyAmount > renewalPrice THEN Revert(w, "Panic: arithmetic underflow")
     ELSE LET c == Send(extended, "token", model.creator, creatorAmount, "creator") IN
          IF c.err # "" THEN c
          ELSE IF royaltyAmount > 0
          THEN LET royaltyRecipient == royaltyInfo(c.w, modelId, renewalPrice).receiver IN
               IF royaltyRecipient # NullAddr
               THEN Send(c.w, "token", royaltyRecipient, royaltyAmount, "royalty")
               ELSE c
          ELSE c

\* renewLicense without the check that the license has an expiry
renewLicenseOfPerpetual(w, sender, value, tokenId) ==
  LET funded == [w EXCEPT !.token.balance = @ + value]
      snapshot == w.token.purchaseSnapshots[tokenId]
      renewalPrice == getLicensePrice(w, snapshot.modelId, snapshot.license.licenseType)
  IN IF ~_exists(w, tokenId) THEN Revert(w, "ModelToken: Token does not exist")
     ELSE IF ownerOf(w, tokenId) # sender THEN Revert(w, "ModelToken: Not token owner")
     ELSE IF snapshot.burned THEN Revert(w, "ModelToken: Token burned")
     ELSE IF renewalPrice.err # "" THEN Revert(w, renewalPrice.err)
     ELSE IF ~(value >= renewalPrice.val)
     THEN Revert(w, "ModelToken: Insufficient renewal payment")
     ELSE RenewEffects(funded, tokenId, renewalPrice.val)

renewLicense(w, sender, value, tokenId) ==
  LET funded == [w EXCEPT !.token.balance = @ + value]
      snapshot == w.token.purchaseSnapshots[tokenId]
      renewalPrice == getLicensePrice(w, snapshot.modelId, snapshot.license.licenseType)
  IN IF ~_exists(w, tokenId) THEN Revert(w, "ModelToken: Token does not exist")
     ELSE IF ownerOf(w, tokenId) # sender THEN Revert(w, "ModelToken: Not token owner")
     ELSE IF ~(snapshot.license.expiresAt > 0)
     THEN Revert(w, "ModelToken: Cannot renew perpetual license")
     ELSE IF snapshot.burned THEN Revert(w, "ModelToken: Token burned")
     ELSE IF renewalPrice.err # "" THEN Revert(w, renewalPrice.err)
     ELSE IF ~(value >= renewalPrice.val)
     THEN Revert(w, "ModelToken: Insufficient renewal payment")
     ELSE RenewEffects(funded, tokenId, renewalPrice.val)

(* ===================== DerivativeRoyaltyRegistry ====================== *)

setDerivativeRoyalty(w, sender, derivativeModelId, originalModelId, royaltyBps) ==
  IF ~w.registry.models[derivativeModelId].exists
  THEN Revert(w, "DerivativeRoyalty: Model does not exist")
  ELSE IF ~w.registry.models[originalModelId].exists
  THEN Revert(w, "DerivativeRoyalty: Model does not exist")
  ELSE IF ~(royaltyBps <= MAX_DERIVATIVE_ROYALTY_BPS)
  THEN Revert(w, "DerivativeRoyalty: Royalty too high")
  ELSE LET originalModel == w.registry.models[originalModelId] IN
       IF originalModel.creator = NullAddr
       THEN Revert(w, "DerivativeRoyalty: Invalid original creator")
       ELSE incrementDerivativeCount(
              [w EXCEPT !.royalty.derivativeRoyalties[derivativeModelId] =
                 [originalModelId |-> originalModelId,
                  originalCreator |-> originalModel.creator,
                  royaltyBps |-> royaltyBps, active |-> TRUE]],
              RoyaltyAddr, originalModelId)

\* RecordPayment writing every record under the same id
RecordPaymentReusingId(w, from, to, amount, modelId, paymentType, message) ==
  LET paymentId == w.royalty.paymentIdCounter IN
  [w EXCEPT !.royalty.royaltyPayments[paymentId] =
                [from |-> from, to |-> to, amount |-> amount, modelId |-> modelId,
                 paymentType |-> paymentType, message |-> message, timestamp |-> w.now],
            !.royalty.creatorPayments[to] = Append(@, paymentId)]

\* the payment record written by payDerivativeRoyalty and payDirectRoyalty
RecordPayment(w, from, to, amount, modelId, paymentType, message) ==
  LET paymentId == w.royalty.paymentIdCounter IN
  [w EXCEPT !.royalty.paymentIdCounter = @ + 1,
            !.royalty.royaltyPayments[paymentId] =
                [from |-> from, to |-> to, amount |-> amount, modelId |-> modelId,
                 paymentType |-> paymentType, message |-> message, timestamp |-> w.now],
            !.royalty.creatorPayments[to] = Append(@, paymentId)]

\* payDerivativeRoyalty leaving out the payment record
payDerivativeRoyaltyUnrecorded(w, sender, value, derivativeModelId, salePrice) ==
  LET royalty == w.royalty.derivativeRoyalties[derivativeModelId]
      royaltyAmount == (salePrice * royalty.royaltyBps) \div 10000
  IN IF ~w.registry.models[derivativeModelId].exists
     THEN Revert(w, "DerivativeRoyalty: Model does not exist")
     ELSE IF ~royalty.active THEN Revert(w, "DerivativeRoyalty: No derivative royalty set")
     ELSE IF value # salePrice THEN Revert(w, "DerivativeRoyalty: Incorrect payment amount")
     ELSE Send([w EXCEPT !.royalty.balance = @ + value,
                         !.royalty.claimableRoyalties[royalty.originalCreator] =
                             @ + royaltyAmount],
               "royalty", sender, salePrice - royaltyAmount, "remainder")

\* payDerivativeRoyalty sending the whole sale price back to the payer
payDerivativeRoyaltyReturningAll(w, sender, value, derivativeModelId, salePrice) ==
  LET funded == [w EXCEPT !.royalty.balance = @ + value]
      royalty == w.royalty.derivativeRoyalties[derivativeModelId]
      royaltyAmount == (salePrice * royalty.royaltyBps) \div 10000
  IN IF ~w.registry.models[derivativeModelId].exists
     THEN Revert(w, "DerivativeRoyalty: Model does not exist")
     ELSE IF ~royalty.active THEN Revert(w, "DerivativeRoyalty: No derivative royalty set")
     ELSE IF value # salePrice THEN Revert(w, "DerivativeRoyalty: Incorrect payment amount")
     ELSE LET credited == [funded EXCEPT
                             !.royalty.claimableRoyalties[royalty.originalCreator] =
                                 @ + royaltyAmount]
              sent == Send(credited, "royalty", sender, salePrice, "remainder")
          IN IF sent.err # "" THEN sent
             ELSE Ok(RecordPayment(sent.w, sender, royalty.originalCreator, royaltyAmount,
                                   derivativeModelId, "derivative", ""))

payDerivativeRoyalty(w, sender, value, derivativeModelId, salePrice) ==
  LET funded == [w EXCEPT !.royalty.balance = @ + value]
      royalty == w.royalty.derivativeRoyalties[derivativeModelId]
      royaltyAmount == (salePrice * royalty.royaltyBps) \div 10000
      remainingAmount == salePrice - royaltyAmount
  IN IF ~w.registry.models[derivativeModelId].exists
     THEN Revert(w, "DerivativeRoyalty: Model does not exist")
     ELSE IF ~royalty.active THEN Revert(w, "DerivativeRoyalty: No derivative royalty set")
     ELSE IF value # salePrice THEN Revert(w, "DerivativeRoyalty: Incorrect payment amount")
     ELSE LET credited == [funded EXCEPT
                             !.royalty.claimableRoyalties[royalty.originalCreator] =
                                 @ + royaltyAmount]
              sent == Send(credited, "royalty", sender, remainingAmount, "remainder")
          IN IF sent.err # "" THEN sent
             ELSE Ok(RecordPayment(sent.w, sender, royalty.originalCreator, royaltyAmount,
                                   derivativeModelId, "derivative", ""))

\* payDirectRoyalty letting the payer tip itself
payDirectRoyaltyToSelf(w, sender, value, creator, message) ==
  IF creator = NullAddr THEN Revert(w, "DerivativeRoyalty: Invalid creator address")
  ELSE IF ~(value > 0) THEN Revert(w, "DerivativeRoyalty: Payment required")
  ELSE Ok(RecordPayment([w EXCEPT !.royalty.balance = @ + value,
                                  !.royalty.claimableRoyalties[creator] = @ + value],
                        sender, creator, value, 0, "direct", message))

payDirectRoyalty(w, sender, value, creator, message) ==
  IF creator = NullAddr THEN Revert(w, "DerivativeRoyalty: Invalid creator address")
  ELSE IF ~(value > 0) THEN Revert(w, "DerivativeRoyalty: Payment required")
  ELSE IF creator = sender THEN Revert(w, "DerivativeRoyalty: Cannot pay yourself")
  ELSE Ok(RecordPayment([w EXCEPT !.royalty.balance = @ + value,
                                  !.royalty.claimableRoyalties[creator] = @ + value],
                        sender, creator, value, 0, "direct", message))

\* claimRoyalties zeroing the balance only after the transfer
claimRoyaltiesPayFirst(w, sender) ==
  LET amount == w.royalty.claimableRoyalties[sender]
      paid == Send(w, "royalty", sender, amount, "claim")
  IN IF ~(amount > 0) THEN Revert(w, "DerivativeRoyalty: No royalties to claim")
     ELSE IF paid.err # "" THEN paid
     ELSE Ok([paid.w EXCEPT !.royalty.claimableRoyalties[sender] = 0])

\* claimRoyalties without the check of the balance
claimRoyaltiesAnyBalance(w, sender) ==
  LET amount == w.royalty.claimableRoyalties[sender] IN
  Send([w EXCEPT !.royalty.claimableRoyalties[sender] = 0], "royalty", sender, amount,
       "claim")

claimRoyalties(w, sender) ==
  LET amount == w.royalty.claimableRoyalties[sender] IN
  IF ~(amount > 0) THEN Revert(w, "DerivativeRoyalty: No royalties to claim")
  ELSE Send([w EXCEPT !.royalty.claimableRoyalties[sender] = 0], "royalty", sender, amount,
            "claim")

deactivateDerivativeRoyalty(w, sender, derivativeModelId) ==
  IF sender # w.royalty.owner THEN Revert(w, "Ownable: caller is not the owner")
  ELSE Ok([w EXCEPT !.royalty.derivativeRoyalties[derivativeModelId].active = FALSE])

\* the payments of creator, in the order of creatorPayments
getRoyaltyHistory(w, creator) ==
  [i \in 1 .. Len(w.royalty.creatorPayments[creator]) |->
      w.royalty.royaltyPayments[w.royalty.creatorPayments[creator][i]]]

RECURSIVE SumAmounts(_, _, _)
SumAmounts(w, paymentIds, i) ==
  IF i > Len(paymentIds) THEN 0
  ELSE w.royalty.royaltyPayments[paymentIds[i]].amount + SumAmounts(w, paymentIds, i + 1)

getTotalRoyaltiesEarned(w, creator) ==
  SumAmounts(w, w.royalty.creatorPayments[creator], 1)

(* ========================= re-entrant calls =========================== *)

\* the payee's call back into the ledger; the payee takes a revert of its
\* own call and lets the transfer that called it return
Reenter(w, hook) ==
  LET r == CASE hook.fn = "purchaseModel" ->
                  purchaseModel(w, hook.sender, hook.value, hook.id, hook.licenseType, <<>>)
             [] hook.fn = "renewLicense" ->
                  renewLicense(w, hook.sender, hook.value, hook.id)
             [] hook.fn = "burnForDownload" ->
                  burnForDownload(w, hook.sender, hook.id)
             [] hook.fn = "claimRoyalties" ->
                  claimRoyalties(w, hook.sender)
             [] OTHER -> Ok(w)
  IN IF r.err # "" THEN Ok([w EXCEPT !.io.reentry = r.err])
     ELSE Ok([r.w EXCEPT !.io.reentry = "ok"])

(* ======================= inputs of the model ========================== *)

\* license types callers pass: two of the four the code knows, one it does not
LicenseTypes == {"personal", "commercial", "gold"}

\* the configurations creators set
ConfigA ==
  [NoLicenseConfig EXCEPT !.personalPrice = 100, !.commercialPrice = 300,
                          !.commercialDuration = 2]
ConfigB ==
  [NoLicenseConfig EXCEPT !.personalPrice = 100, !.commercialPrice = 305,
                          !.commercialDuration = 1]
LicenseConfigs == {ConfigA, ConfigB}

\* a configuration whose commercial price is above 50,000 wei
ConfigC ==
  [NoLicenseConfig EXCEPT !.personalPrice = 100, !.commercialPrice = 60000,
                          !.commercialDuration = 2]

\* royalty settings callers pass: two rates under the cap, one over it,
\* and the null recipient
RoyaltyInputs ==
  {[recipient |-> "bob", bps |-> 1000], [recipient |-> "bob", bps |-> 500],
   [recipient |-> "bob", bps |-> 2001], [recipient |-> NullAddr, bps |-> 1000]}

\* the variations creators add
Gold == [name |-> "gold", price |-> 5]
Chrome == [name |-> "chrome", price |-> 9]
VariationInputs == {Gold, Chrome}

\* the key the administrator sets
AdminKey == <<"adminKey">>

(* =========================== construction ============================= *)

InitRegistry ==
  [models |-> [i \in Ids |-> NoModel], modelIdCounter |-> 0,
   creatorModels |-> [u \in Users |-> <<>>],
   modelDerivatives |-> [i \in Ids |-> <<>>],
   marketplace |-> NullAddr, derivativeRoyaltyRegistry |-> NullAddr, owner |-> Admin]

InitMarketplace ==
  [licenseConfigs |-> [i \in Ids |-> NoLicenseConfig],
   royalties |-> [i \in Ids |-> NoRoyaltyInfo],
   maxSupplies |-> [i \in Ids |-> 0], soldCounts |-> [i \in Ids |-> 0],
   variations |-> [i \in Ids |-> <<>>], forSale |-> [i \in Ids |-> FALSE],
   owner |-> Admin]

InitToken ==
  [tokenIdCounter |-> 0, purchaseSnapshots |-> [i \in Ids |-> NoPurchaseSnapshot],
   modelPurchaseCount |-> [i \in Ids |-> 0], userTokens |-> [u \in Users |-> <<>>],
   owners |-> [i \in Ids |-> NullAddr], balance |-> 0, owner |-> Admin]

InitRoyaltyRegistry ==
  [paymentIdCounter |-> 0,
   derivativeRoyalties |-> [i \in Ids |-> NoDerivativeRoyalty],
   claimableRoyalties |-> [u \in Users |-> 0],
   royaltyPayments |-> [i \in PaymentIds |-> NoRoyaltyPayment],
   creatorPayments |-> [u \in Users |-> <<>>], balance |-> 0, owner |-> Admin]

NoArgs == [id |-> 0]

InitOut ==
  [fn |-> "constructor", sender |-> Admin, args |-> NoArgs, err |-> "",
   transfers |-> <<>>, hook |-> "none", reentry |-> "none", lateWrites |-> {}]

\* the four contracts as their constructors leave them
Init ==
  /\ registry = InitRegistry
  /\ marketplace = InitMarketplace
  /\ token = InitToken
  /\ royaltyRegistry = InitRoyaltyRegistry
  /\ now = 1
  /\ out = InitOut
  /\ claimed = [u \in Users |-> 0]
  /\ rateAtPurchase = [i \in Ids |-> 0]

(* ========================== transactions ============================== *)

\* the world a transaction starts in
World(hook) ==
  [registry |-> registry, marketplace |-> marketplace, token |-> token,
   royalty |-> royaltyRegistry, now |-> now, io |-> NoIo(hook)]

\* storage with the contracts' held funds left out
Mutable(st) == [st EXCEPT !.token.balance = 0, !.royalty.balance = 0]

\* the contracts whose storage was written after the first outward transfer
LateWrites(w) ==
  IF ~w.io.atTransfer.set THEN {}
  ELSE {c \in {"registry", "marketplace", "token", "royalty"} :
          Mutable(w.io.atTransfer.at)[c] # Mutable(Storage(w))[c]}

\* the counters of the result stay within the model's bounds
WithinBounds(w) ==
  /\ w.registry.modelIdCounter <= MaxModels
  /\ w.token.tokenIdCounter <= MaxTokens
  /\ w.royalty.paymentIdCounter <= MaxPayments
  /\ \A i \in Ids : w.marketplace.soldCounts[i] <= MaxTokens
  /\ \A i \in Ids : w.registry.models[i].derivativeCount <= MaxDerivatives
  /\ \A i \in Ids : Len(w.marketplace.variations[i]) <= MaxVariations
  /\ \A i \in Ids : w.token.purchaseSnapshots[i].license.expiresAt <= MaxTime + 2

\* the sum of the amounts of the transfers of kind "claim" to u, from i on
RECURSIVE ClaimedIn(_, _, _)
ClaimedIn(transfers, u, i) ==
  IF i > Len(transfers) THEN 0
  ELSE (IF transfers[i].kind = "claim" /\ transfers[i].to = u THEN transfers[i].amount ELSE 0)
       + ClaimedIn(transfers, u, i + 1)

\* the royalty rate in force for an asset, in basis points (0 if none is set)
ConfiguredBps(modelId) ==
  IF marketplace.royalties[modelId].recipient = NullAddr THEN 0
  ELSE marketplace.royalties[modelId].bps

\* a transaction whose writes stay in storage when the call reverts
TransactKeepingWrites(fn, sender, args, hook, r) ==
  /\ WithinBounds(r.w)
  /\ registry' = r.w.registry
  /\ marketplace' = r.w.marketplace
  /\ token' = r.w.token
  /\ royaltyRegistry' = r.w.royalty
  /\ now' = now
  /\ out' = [fn |-> fn, sender |-> sender, args |-> args, err |-> r.err,
             transfers |-> IF r.err = "" THEN r.w.io.transfers ELSE <<>>,
             hook |-> hook.fn,
             reentry |-> IF r.err = "" THEN r.w.io.reentry ELSE "none",
             lateWrites |-> IF r.err = "" THEN LateWrites(r.w) ELSE {}]
  /\ UNCHANGED <<claimed, rateAtPurchase>>

\* one transaction: the call's result r is committed or rolled back, the call
\* is recorded in out, and the history variables follow (claimed: what
\* claimRoyalties has paid out; rateAtPurchase: the asset's royalty rate when
\* each record was issued)
Transact(fn, sender, args, hook, r) ==
  /\ r.err = "" => WithinBounds(r.w)
  /\ registry' = IF r.err = "" THEN r.w.registry ELSE registry
  /\ marketplace' = IF r.err = "" THEN r.w.marketplace ELSE marketplace
  /\ token' = IF r.err = "" THEN r.w.token ELSE token
  /\ royaltyRegistry' = IF r.err = "" THEN r.w.royalty ELSE royaltyRegistry
  /\ now' = now
  /\ out' = [fn |-> fn, sender |-> sender, args |-> args, err |-> r.err,
             transfers |-> IF r.err = "" THEN r.w.io.transfers ELSE <<>>,
             hook |-> hook.fn,
             reentry |-> IF r.err = "" THEN r.w.io.reentry ELSE "none",
             lateWrites |-> IF r.err = "" THEN LateWrites(r.w) ELSE {}]
  /\ claimed' = IF r.err = ""
                THEN [u \in Users |-> claimed[u] + ClaimedIn(r.w.io.transfers, u, 1)]
                ELSE claimed
  /\ rateAtPurchase' =
       IF r.err = ""
       THEN [i \in Ids |->
               IF token.tokenIdCounter <= i /\ i < r.w.token.tokenIdCounter
               THEN ConfiguredBps(r.w.token.purchaseSnapshots[i].modelId)
               ELSE rateAtPurchase[i]]
       ELSE rateAtPurchase

\* block.timestamp moves on between transactions
Tick ==
  /\ now < MaxTime
  /\ now' = now + 1
  /\ out' = [InitOut EXCEPT !.fn = "tick"]
  /\ UNCHANGED <<registry, marketplace, token, royaltyRegistry, claimed, rateAtPurchase>>

\* block.timestamp moves on past MaxTime while licenses are left to lapse
Lapse ==
  /\ now < MaxTime + MaxLapse
  /\ now' = now + 1
  /\ out' = [InitOut EXCEPT !.fn = "tick"]
  /\ UNCHANGED <<registry, marketplace, token, royaltyRegistry, claimed, rateAtPurchase>>

(* Each action draws the caller and the arguments from the sets it is      *)
(* given, so that a specification can follow a component with the inputs    *)
(* its operations need.                                                     *)

RegisterModel(senders, refs) ==
  \E sender \in senders, modelIPFS \in refs, metadataIPFS \in refs :
    Transact("registerModel", sender,
             [id |-> registry.modelIdCounter, modelIPFS |-> modelIPFS,
              metadataIPFS |-> metadataIPFS], NoHook,
             registerModel(World(NoHook), sender, modelIPFS, metadataIPFS))

RegisterDerivativeModel(senders, modelIds) ==
  \E sender \in senders, originalModelId \in modelIds :
    Transact("registerDerivativeModel", sender, [id |-> originalModelId], NoHook,
             registerDerivativeModel(World(NoHook), sender, "QmModel", "QmMetaA",
                                     originalModelId))

UpdateMetadata(senders, modelIds, refs) ==
  \E sender \in senders, modelId \in modelIds, ref \in refs :
    Transact("updateMetadata", sender, [id |-> modelId, newMetadataIPFS |-> ref], NoHook,
             updateMetadata(World(NoHook), sender, modelId, ref))

ToggleModelActive(senders, modelIds) ==
  \E sender \in senders, modelId \in modelIds :
    Transact("toggleModelActive", sender, [id |-> modelId], NoHook,
             toggleModelActive(World(NoHook), sender, modelId))

IncrementDerivativeCount(senders, modelIds) ==
  \E sender \in senders, modelId \in modelIds :
    Transact("incrementDerivativeCount", sender, [id |-> modelId], NoHook,
             incrementDerivativeCount(World(NoHook), sender, modelId))

SetMarketplace(senders, addrs) ==
  \E sender \in senders, addr \in addrs :
    Transact("setMarketplace", sender, NoArgs, NoHook,
             setMarketplace(World(NoHook), sender, addr))

SetLicenseConfig(senders, modelIds, configs) ==
  \E sender \in senders, modelId \in modelIds, config \in configs :
    Transact("setLicenseConfig", sender, [id |-> modelId], NoHook,
             setLicenseConfig(World(NoHook), sender, modelId, config))

SetLicensePrice(senders, modelIds, licenseTypes, prices) ==
  \E sender \in senders, modelId \in modelIds, licenseType \in licenseTypes,
     price \in prices :
    Transact("setLicensePrice", sender, [id |-> modelId, licenseType |-> licenseType], NoHook,
             setLicensePrice(World(NoHook), sender, modelId, licenseType, price))

SetRoyalty(senders, modelIds, inputs) ==
  \E sender \in senders, modelId \in modelIds, ri \in inputs :
    Transact("setRoyalty", sender,
             [id |-> modelId, recipient |-> ri.recipient, bps |-> ri.bps], NoHook,
             setRoyalty(World(NoHook), sender, modelId, ri.recipient, ri.bps))

AddVariation(senders, modelIds, inputs) ==
  \E sender \in senders, modelId \in modelIds, v \in inputs :
    Transact("addVariation", sender,
             [id |-> modelId, name |-> v.name, price |-> v.price], NoHook,
             addVariation(World(NoHook), sender, modelId, v.name, v.price, "QmVar"))

ToggleVariationActive(senders, modelIds, indexes) ==
  \E sender \in senders, modelId \in modelIds, index \in indexes :
    Transact("toggleVariationActive", sender, [id |-> modelId, index |-> index], NoHook,
             toggleVariationActive(World(NoHook), sender, modelId, index))

SetMaxSupply(senders, modelIds, supplies) ==
  \E sender \in senders, modelId \in modelIds, maxSupply \in supplies :
    Transact("setMaxSupply", sender, [id |-> modelId, maxSupply |-> maxSupply], NoHook,
             setMaxSupply(World(NoHook), sender, modelId, maxSupply))

ToggleForSale(senders, modelIds) ==
  \E sender \in senders, modelId \in modelIds :
    Transact("toggleForSale", sender, [id |-> modelId], NoHook,
             toggleForSale(World(NoHook), sender, modelId))

IncrementSoldCount(senders, modelIds) ==
  \E sender \in senders, modelId \in modelIds :
    Transact("incrementSoldCount", sender, [id |-> modelId], NoHook,
             incrementSoldCount(World(NoHook), sender, modelId))

\* what the first payee of a transfer does when paid: nothing ("none"),
\* refuse the funds ("reject"), or call fn with the arguments given
Hook(fn, value, id, licenseType) ==
  [NoHook EXCEPT !.fn = fn, !.value = value, !.id = id, !.licenseType = licenseType]

\* msg.value is the total price plus delta; the payee's call back is tried
\* on purchases that pay the exact price, and buys the same license again
PurchaseModel(senders, modelIds, licenseTypes, variationLists, deltas, hookFns) ==
  \E sender \in senders, modelId \in modelIds, licenseType \in licenseTypes,
     variationIds \in variationLists, delta \in deltas :
    LET totalPrice == getTotalPrice(World(NoHook), modelId, licenseType, variationIds)
        value == IF totalPrice.err # "" THEN 0 ELSE totalPrice.val + delta
    IN /\ value >= 0
       /\ totalPrice.err # "" => delta = 0
       /\ \E fn \in IF delta = 0 /\ totalPrice.err = "" THEN hookFns ELSE {"none"} :
            LET hook == Hook(fn, value, modelId, licenseType) IN
            Transact("purchaseModel", sender,
                     [id |-> modelId, licenseType |-> licenseType,
                      variationIds |-> variationIds, value |-> value,
                      tokenId |-> token.tokenIdCounter], hook,
                     purchaseModel(World(hook), sender, value, modelId, licenseType,
                                   variationIds))

BurnForDownload(senders, tokenIds) ==
  \E sender \in senders, tokenId \in tokenIds :
    Transact("burnForDownload", sender, [id |-> tokenId], NoHook,
             burnForDownload(World(NoHook), sender, tokenId))

SetDownloadKey(senders, tokenIds) ==
  \E sender \in senders, tokenId \in tokenIds :
    Transact("setDownloadKey", sender, [id |-> tokenId], NoHook,
             setDownloadKey(World(NoHook), sender, tokenId, AdminKey))

\* msg.value is the current price of the record's license plus delta
RenewLicense(senders, tokenIds, deltas, hookFns) ==
  \E sender \in senders, tokenId \in tokenIds, delta \in deltas, fn \in hookFns :
    LET snapshot == token.purchaseSnapshots[tokenId]
        price == getLicensePrice(World(NoHook), snapshot.modelId, snapshot.license.licenseType)
        value == IF price.err # "" THEN 0 ELSE price.val + delta
        hook == Hook(fn, value, tokenId, "")
    IN /\ value >= 0
       /\ (price.err # "" \/ fn # "none") => delta = 0
       /\ Transact("renewLicense", sender, [id |-> tokenId, value |-> value], hook,
                   renewLicense(World(hook), sender, value, tokenId))

\* transferFrom(msg.sender, to, tokenId)
TransferFrom(senders, tos, tokenIds) ==
  \E sender \in senders, to \in tos, tokenId \in tokenIds :
    Transact("transferFrom", sender, [id |-> tokenId, to |-> to], NoHook,
             transferFrom(World(NoHook), sender, sender, to, tokenId))

SetDerivativeRoyalty(senders, derivativeIds, originalIds, rates) ==
  \E sender \in senders, derivativeModelId \in derivativeIds,
     originalModelId \in originalIds, royaltyBps \in rates :
    Transact("setDerivativeRoyalty", sender,
             [id |-> derivativeModelId, originalModelId |-> originalModelId,
              royaltyBps |-> royaltyBps], NoHook,
             setDerivativeRoyalty(World(NoHook), sender, derivativeModelId,
                                  originalModelId, royaltyBps))

PayDerivativeRoyalty(senders, modelIds, salePrices, values, hookFns) ==
  \E sender \in senders, derivativeModelId \in modelIds, salePrice \in salePrices,
     value \in values, fn \in hookFns :
    LET hook == Hook(fn, 0, 0, "") IN
    Transact("payDerivativeRoyalty", sender,
             [id |-> derivativeModelId, salePrice |-> salePrice, value |-> value], hook,
             payDerivativeRoyalty(World(hook), sender, value, derivativeModelId, salePrice))

PayDirectRoyalty(senders, creators, values) ==
  \E sender \in senders, creator \in creators, value \in values :
    Transact("payDirectRoyalty", sender,
             [creator |-> creator, value |-> value, message |-> "great work"], NoHook,
             payDirectRoyalty(World(NoHook), sender, value, creator, "great work"))

ClaimRoyalties(senders, hookFns) ==
  \E sender \in senders, fn \in hookFns :
    LET hook == Hook(fn, 0, 0, "") IN
    Transact("claimRoyalties", sender, NoArgs, hook,
             claimRoyalties(World(hook), sender))

DeactivateDerivativeRoyalty(senders, modelIds) ==
  \E sender \in senders, derivativeModelId \in modelIds :
    Transact("deactivateDerivativeRoyalty", sender, [id |-> derivativeModelId], NoHook,
             deactivateDerivativeRoyalty(World(NoHook), sender, derivativeModelId))

(* ========================== specifications ============================ *)

ModelIds == 0 .. MaxModels
TokenIds == 0 .. MaxTokens
HookFns == {"none", "reject", "purchaseModel", "renewLicense", "burnForDownload",
            "claimRoyalties"}

\* every operation of the four contracts, by any caller
Next ==
  \/ Tick
  \/ RegisterModel(Users, {"", "QmModel"})
  \/ RegisterDerivativeModel(Users, ModelIds)
  \/ UpdateMetadata(Users, ModelIds, {"", "QmMetaB"})
  \/ ToggleModelActive(Users, ModelIds)
  \/ IncrementDerivativeCount(Users, ModelIds)
  \/ SetMarketplace(Users, {MarketplaceAddr, RoyaltyAddr})
  \/ SetLicenseConfig(Users, ModelIds, LicenseConfigs)
  \/ SetLicensePrice(Users, ModelIds, LicenseTypes, {100, 300})
  \/ SetRoyalty(Users, ModelIds, RoyaltyInputs)
  \/ AddVariation(Users, ModelIds, VariationInputs)
  \/ ToggleVariationActive(Users, ModelIds, 0 .. MaxVariations)
  \/ SetMaxSupply(Users, ModelIds, 0 .. MaxTokens)
  \/ ToggleForSale(Users, ModelIds)
  \/ IncrementSoldCount(Users, ModelIds)
  \/ PurchaseModel(Users, ModelIds, LicenseTypes, {<<>>, <<0>>}, {-1, 0, 1}, HookFns)
  \/ BurnForDownload(Users, TokenIds)
  \/ SetDownloadKey(Users, TokenIds)
  \/ RenewLicense(Users, TokenIds, {-1, 0, 1}, HookFns)
  \/ TransferFrom(Users, Users \cup {NullAddr}, TokenIds)
  \/ SetDerivativeRoyalty(Users, ModelIds, ModelIds, {1000, 2001})
  \/ PayDerivativeRoyalty(Users, ModelIds, {105}, {104, 105}, HookFns)
  \/ PayDirectRoyalty(Users, Users \cup {NullAddr}, {0, 50})
  \/ ClaimRoyalties(Users, HookFns)
  \/ DeactivateDerivativeRoyalty(Users, ModelIds)

\* the whole system from its construction
Spec == Init /\ [][Next]_vars

(* A ledger holding a first record.  purchaseModel admits a purchase of   *)
(* model m only while a token with id m exists, so the constructed ledger  *)
(* never issues one; the operations on issued records are followed from    *)
(* the state that the body of purchaseModel (PurchaseEffects) leaves when   *)
(* alice has registered model 0, configured and listed it, and bob pays     *)
(* 300 for its commercial license.                                          *)
IssuedWorld ==
  LET w0 == [registry |-> InitRegistry, marketplace |-> InitMarketplace,
             token |-> InitToken, royalty |-> InitRoyaltyRegistry, now |-> 1,
             io |-> NoIo(NoHook)]
      w1 == registerModel(w0, "alice", "QmModel", "QmMetaA").w
      w2 == setLicenseConfig(w1, "alice", 0, ConfigA).w
      w3 == toggleForSale(w2, "alice", 0).w
  IN PurchaseEffects([w3 EXCEPT !.token.balance = @ + 300], "bob", 0, "commercial",
                     <<>>, 300).w

InitIssued ==
  /\ registry = IssuedWorld.registry
  /\ marketplace = IssuedWorld.marketplace
  /\ token = IssuedWorld.token
  /\ royaltyRegistry = IssuedWorld.royalty
  /\ now = 1
  /\ out = InitOut
  /\ claimed = [u \in Users |-> 0]
  /\ rateAtPurchase = [i \in Ids |-> 0]

\* the constructed system: alice lists a model and bob tries to buy it
NextDeploy ==
  \/ registry.modelIdCounter = 0 /\ RegisterModel({"alice"}, {"", "QmModel"})
  \/ ToggleModelActive({"alice"}, {0})
  \/ SetLicenseConfig({"alice"}, {0}, {ConfigA})
  \/ AddVariation({"alice"}, {0}, {Gold})
  \/ ToggleVariationActive({"alice"}, {0}, {0})
  \/ SetMaxSupply({"alice"}, {0}, {0, 1})
  \/ ToggleForSale({"alice", "bob"}, {0})
  \/ IncrementSoldCount({"bob"}, {0})
  \/ PurchaseModel({"bob"}, {0, MaxModels}, LicenseTypes, {<<>>, <<0>>}, {-1, 0, 1},
                   {"none"})

SpecDeploy == Init /\ [][NextDeploy]_vars

\* sales and renewals on a ledger that holds a record
NextSale ==
  \/ UpdateMetadata({"alice"}, {0}, {"QmMetaB"})
  \/ SetRoyalty({"alice"}, {0}, RoyaltyInputs)
  \/ SetMaxSupply({"alice"}, {0}, {0, 1, 2})
  \/ PurchaseModel({"bob"}, {0}, {"commercial"}, {<<>>}, {0, 1},
                   {"none", "purchaseModel"})
  \/ RenewLicense({"bob"}, {0, 1}, {-1, 0}, {"none"})
  \/ BurnForDownload({"bob"}, {0})

SpecSale == InitIssued /\ [][NextSale]_vars

\* the life of issued records
NextLicense ==
  \/ Tick
  \/ SetLicenseConfig({"alice"}, {0}, {ConfigB})
  \/ PurchaseModel({"alice"}, {0}, {"commercial"}, {<<>>}, {0}, {"none"})
  \/ BurnForDownload({"alice", "bob"}, {0, 1})
  \/ SetDownloadKey({Admin, "bob"}, {0})
  \/ RenewLicense({"bob"}, {0, 1}, {0}, {"none"})
  \/ TransferFrom({"bob"}, {"alice", NullAddr}, {0})

SpecLicense == InitIssued /\ [][NextLicense]_vars

\* the royalty ledger of the constructed system
NextRoyalty ==
  \/ registry.modelIdCounter = 0 /\ RegisterModel({"alice"}, {"QmModel"})
  \/ SetMarketplace({Admin}, {MarketplaceAddr, RoyaltyAddr})
  \/ SetDerivativeRoyalty({"bob"}, {0, MaxModels}, {0, MaxModels}, {1000, 2001})
  \/ PayDerivativeRoyalty({"bob"}, {0}, {105}, {104, 105}, {"none", "claimRoyalties"})
  \/ PayDirectRoyalty({"alice", "bob"}, {"alice", "bob", NullAddr}, {0, 50})
  \/ ClaimRoyalties({"alice", "bob"}, {"none", "claimRoyalties"})
  \/ DeactivateDerivativeRoyalty({Admin, "bob"}, {0})

SpecRoyalty == Init /\ [][NextRoyalty]_vars

\* the pricing configuration of one asset, set by its creator and by others
NextPricing ==
  \/ registry.modelIdCounter = 0 /\ RegisterModel({"alice"}, {"QmModel"})
  \/ SetLicenseConfig({"alice", "bob"}, {0, MaxModels}, {ConfigA})
  \/ SetLicensePrice({"alice", "bob"}, {0, MaxModels}, {"personal", "gold"}, {7})
  \/ SetRoyalty({"alice", "bob"}, {0, MaxModels},
                {[recipient |-> "bob", bps |-> 1000], [recipient |-> "bob", bps |-> 2001]})
  \/ AddVariation({"alice", "bob"}, {0, MaxModels}, {Gold})
  \/ ToggleVariationActive({"alice", "bob"}, {0, MaxModels}, {0, 1})
  \/ SetMaxSupply({"alice", "bob"}, {0, MaxModels}, {0, 1})
  \/ ToggleForSale({"alice", "bob"}, {0, MaxModels})

SpecPricing == Init /\ [][NextPricing]_vars

\* the asset registry: registration, derivatives, metadata and the active
\* flag, with the royalty registry linking derivatives and a listing and a
\* purchase attempt going on beside them
NextRegistry ==
  \/ Tick
  \/ RegisterModel({"alice"}, {"QmModel"})
  \/ RegisterDerivativeModel({"bob"}, {0, MaxModels})
  \/ UpdateMetadata({"alice", "bob"}, {0}, {"", "QmMetaB"})
  \/ ToggleModelActive({"alice", "bob"}, {0})
  \/ IncrementDerivativeCount({"bob"}, {0})
  \/ SetMarketplace({Admin, "bob"}, {RoyaltyAddr})
  \/ SetDerivativeRoyalty({"bob"}, {1}, {0}, {1000})
  \/ ToggleForSale({"alice"}, {0})
  \/ PurchaseModel({"bob"}, {0}, {"personal"}, {<<>>}, {0}, {"none"})

SpecRegistry == Init /\ [][NextRegistry]_vars

\* the operations that can fail after they have written or paid, on a
\* ledger holding a record: payees that refuse the funds, short payments,
\* foreign callers and a registry that does not admit the royalty ledger
NextAbort ==
  \/ SetMarketplace({Admin}, {RoyaltyAddr})
  \/ PurchaseModel({"bob"}, {0}, {"commercial"}, {<<>>}, {-1, 0}, {"none", "reject"})
  \/ RenewLicense({"bob"}, {0}, {-1, 0}, {"none", "reject"})
  \/ BurnForDownload({"alice", "bob"}, {0})
  \/ SetDerivativeRoyalty({"bob"}, {0, MaxModels}, {0}, {1000, 2001})
  \/ PayDerivativeRoyalty({"bob"}, {0}, {105}, {104, 105}, {"none", "reject"})
  \/ ClaimRoyalties({"alice", "bob"}, {"none", "reject"})

SpecAbort == InitIssued /\ [][NextAbort]_vars

\* records changing hands: purchases, transfers and burns by two holders
NextOwnership ==
  \/ PurchaseModel({"alice", "bob"}, {0}, {"commercial"}, {<<>>}, {0}, {"none"})
  \/ TransferFrom({"alice", "bob"}, {"alice", "bob", NullAddr}, TokenIds)
  \/ BurnForDownload({"alice", "bob"}, TokenIds)

SpecOwnership == InitIssued /\ [][NextOwnership]_vars

\* licenses with and without an expiry as time passes: purchases on both
\* tiers, renewals at and under the current price, a price rise and burns
NextExpiry ==
  \/ Tick
  \/ SetLicenseConfig({"alice"}, {0}, {ConfigB})
  \/ PurchaseModel({"bob"}, {0}, {"personal", "commercial"}, {<<>>}, {0}, {"none"})
  \/ RenewLicense({"alice", "bob"}, {0, 1}, {-5, 0}, {"none"})
  \/ BurnForDownload({"bob"}, {0})

SpecExpiry == InitIssued /\ [][NextExpiry]_vars

\* royalty rates at, under and over the caps, on an asset and on its
\* derivative registration
NextCaps ==
  \/ registry.modelIdCounter = 0 /\ RegisterModel({"alice"}, {"QmModel"})
  \/ SetMarketplace({Admin}, {MarketplaceAddr, RoyaltyAddr})
  \/ SetRoyalty({"alice", "bob"}, {0},
                {[recipient |-> "bob", bps |-> 1000],
                 [recipient |-> "bob", bps |-> MAX_ROYALTY_BPS],
                 [recipient |-> "bob", bps |-> MAX_ROYALTY_BPS + 1],
                 [recipient |-> NullAddr, bps |-> 1000]})
  \/ SetDerivativeRoyalty({"bob"}, {0}, {0},
                          {1000, MAX_DERIVATIVE_ROYALTY_BPS, MAX_DERIVATIVE_ROYALTY_BPS + 1})
  \/ DeactivateDerivativeRoyalty({Admin}, {0})

SpecCaps == Init /\ [][NextCaps]_vars

\* assets and derivatives being registered, with and without references,
\* by two creators, between updates of the assets already there
NextRegistration ==
  \/ RegisterModel({"alice", "bob"}, {"", "QmModel"})
  \/ RegisterDerivativeModel({"alice", "bob"}, ModelIds)
  \/ UpdateMetadata({"alice", "bob"}, {0}, {"", "QmMetaB"})
  \/ ToggleModelActive({"alice", "bob"}, {0, 1})

SpecRegistration == Init /\ [][NextRegistration]_vars

\* an asset's variations: two kinds added by the creator and by a
\* stranger, and toggled at indexes inside and past the list
NextVariations ==
  \/ registry.modelIdCounter = 0 /\ RegisterModel({"alice"}, {"QmModel"})
  \/ AddVariation({"alice", "bob"}, {0}, VariationInputs)
  \/ ToggleVariationActive({"alice", "bob"}, {0}, 0 .. MaxVariations)

SpecVariations == Init /\ [][NextVariations]_vars

\* the first record left to lapse for longer than its duration, renewed
\* early or late by its holder, at and under the price
NextLapse ==
  \/ Lapse
  \/ SetLicenseConfig({"alice"}, {0}, {ConfigB})
  \/ RenewLicense({"alice", "bob"}, {0}, {-1, 0}, {"none"})
  \/ BurnForDownload({"bob"}, {0})

SpecLapse == InitIssued /\ [][NextLapse]_vars

\* sales and renewals at a high price, with the royalty at and under the cap
NextPayment ==
  \/ SetLicenseConfig({"alice"}, {0}, {ConfigA, ConfigC})
  \/ SetRoyalty({"alice"}, {0},
                {[recipient |-> "bob", bps |-> MAX_ROYALTY_BPS],
                 [recipient |-> "bob", bps |-> 1000]})
  \/ PurchaseModel({"bob"}, {0}, {"commercial"}, {<<>>}, {-1, 0}, {"none"})
  \/ RenewLicense({"bob"}, {0, 1}, {-1, 0}, {"none"})

SpecPayment == InitIssued /\ [][NextPayment]_vars

(* ============================== claims ================================ *)

\* the state a transaction starts in, as a world (in an action formula the
\* unprimed variables are the state before the call)
Before == World(NoHook)

\* the funds the last transaction sent to identity u
RECURSIVE PaidFrom(_, _, _)
PaidFrom(transfers, u, i) ==
  IF i > Len(transfers) THEN 0
  ELSE (IF transfers[i].to = u THEN transfers[i].amount ELSE 0)
       + PaidFrom(transfers, u, i + 1)
PaidTo(u) == PaidFrom(out.transfers, u, 1)

\* the last transaction was a call of fn that returned, its payees quiet
Returned(fn) == out.fn = fn /\ out.err = "" /\ out.hook = "none"

(* ------------------------------- C1 ----------------------------------- *)

\* C1: a purchase (whose payees accept the funds) fails exactly when
\* canPurchase is false, the price lookup fails or the payment is below the
\* total price; otherwise it creates one record with a fresh id, owned by
\* and indexed under the caller, and the asset's sold count grows by 1.
C1_PurchaseAsSpecified ==
  [][out'.fn = "purchaseModel" /\ out'.hook = "none" =>
       LET a == out'.args
           totalPrice == getTotalPrice(Before, a.id, a.licenseType, a.variationIds)
           refused == \/ ~canPurchase(Before, a.id)
                      \/ totalPrice.err # ""
                      \/ a.value < totalPrice.val
       IN IF refused THEN out'.err # ""
          ELSE /\ out'.err = ""
               /\ token'.tokenIdCounter = token.tokenIdCounter + 1
               /\ a.tokenId = token.tokenIdCounter
               /\ token.owners[a.tokenId] = NullAddr
               /\ token'.owners[a.tokenId] = out'.sender
               /\ token'.userTokens[out'.sender] =
                      Append(token.userTokens[out'.sender], a.tokenId)
               /\ marketplace'.soldCounts[a.id] = marketplace.soldCounts[a.id] + 1]_vars

(* ------------------------------- C2 ----------------------------------- *)

\* the royalty share of price under the asset's configured royalty
RoyaltyShare(modelId, price) ==
  LET r == marketplace.royalties[modelId] IN
  IF r.recipient = NullAddr THEN 0 ELSE (price * r.bps) \div 10000

C3_EffectsBeforeTransfers ==
  /\ (Returned("purchaseModel") \/ Returned("renewLicense")) => out.lateWrites = {}
  /\ out.fn = "purchaseModel" /\ out.err = "" /\ out.hook = "purchaseModel" =>
       LET maxSupply == marketplace.maxSupplies[out.args.id]
           sold == marketplace.soldCounts[out.args.id]
       IN \/ out.reentry = "ok" /\ (maxSupply = 0 \/ sold <= maxSupply)
          \/ /\ out.reentry = "ModelToken: Model not available"
             /\ maxSupply > 0
             /\ sold = maxSupply

\* a purchase whose payee tried to buy again and was refused
C3_Witness ==
  /\ out.fn = "purchaseModel" /\ out.err = "" /\ out.hook = "purchaseModel"
  /\ out.reentry = "ModelToken: Model not available"
  /\ Len(out.transfers) > 0

(* ------------------------------- C4 ----------------------------------- *)

\* C4: a claim made by the payee from inside the transfer of its own claim
\* fails with "No royalties to claim", and no identity is ever paid more by
\* claimRoyalties than was credited to it.
C4_NoDoubleClaim ==
  /\ out.fn = "claimRoyalties" /\ out.err = "" /\ out.hook = "claimRoyalties" =>
       out.reentry = "DerivativeRoyalty: No royalties to claim"
  /\ \A u \in Users : claimed[u] <= getTotalRoyaltiesEarned(Before, u)

\* a claim whose payee claimed again from inside the transfer
C4_Witness ==
  /\ out.fn = "claimRoyalties" /\ out.err = "" /\ out.hook = "claimRoyalties"
  /\ \E u \in Users : claimed[u] > 0

(* ------------------------------- C5 ----------------------------------- *)

\* C5: no operation of the royalty ledger writes its state after an outward
\* transfer: payDerivativeRoyalty credits the balance, allocates the payment
\* id and appends the audit record before it pays the remainder.
C5_RoyaltyEffectsBeforeTransfers ==
  (Returned("payDerivativeRoyalty") \/ Returned("claimRoyalties")) => out.lateWrites = {}

(* ------------------------------- C6 ----------------------------------- *)

Snapshot(tokenId) == token.purchaseSnapshots[tokenId]

C8_BurnedIsTerminal ==
  [][\A i \in TokenIds :
       Snapshot(i).burned =>
         /\ token'.purchaseSnapshots[i].burned
         /\ token'.owners[i] = token.owners[i]
         /\ token'.purchaseSnapshots[i].license.expiresAt = Snapshot(i).license.expiresAt
         /\ out'.fn \in {"transferFrom", "renewLicense", "burnForDownload"}
            /\ out'.args.id = i => out'.err # ""]_vars

\* a transfer of a burned record was tried, and failed
C8_Witness ==
  /\ out.fn = "transferFrom" /\ out.err # ""
  /\ Snapshot(out.args.id).burned
  /\ token.owners[out.args.id] = NullAddr

(* ------------------------------- C9 ----------------------------------- *)

C12_CanPurchase ==
  [][/\ \A id \in ModelIds :
          canPurchase(Before, id)' <=>
            /\ registry'.models[id].exists
            /\ registry'.models[id].active
            /\ marketplace'.forSale[id]
            /\ \/ marketplace'.maxSupplies[id] = 0
               \/ marketplace'.soldCounts[id] < marketplace'.maxSupplies[id]
     /\ \A id \in ModelIds :
          out'.fn = "registerModel" /\ out'.err = "" /\ out'.args.id = id =>
            ~canPurchase(Before, id)'
     /\ \A id \in ModelIds :
          ~canPurchase(Before, id) /\ ~marketplace.forSale[id] /\ canPurchase(Before, id)' =>
            /\ out'.fn = "toggleForSale"
            /\ out'.args.id = id
            /\ out'.sender = registry.models[id].creator]_vars

\* an active asset that is for sale and sold out: canPurchase is false
C12_Witness ==
  /\ registry.models[0].exists /\ registry.models[0].active
  /\ marketplace.forSale[0]
  /\ marketplace.maxSupplies[0] > 0
  /\ marketplace.soldCounts[0] >= marketplace.maxSupplies[0]
  /\ ~canPurchase(Before, 0)

(* ------------------------------- C14 ---------------------------------- *)

\* C14: incrementSoldCount called by anybody but the license ledger fails
\* and leaves the sold count unchanged.
C14_OnlyLedgerCountsSales ==
  [][out'.fn = "incrementSoldCount" /\ out'.sender # TokenAddr =>
       /\ out'.err # ""
       /\ marketplace'.soldCounts = marketplace.soldCounts]_vars

(* ------------------------------- C15 ---------------------------------- *)

PricingMutators ==
  {"setLicenseConfig", "setLicensePrice", "setRoyalty", "addVariation",
   "toggleVariationActive", "setMaxSupply", "toggleForSale"}

\* C15: a pricing mutator called on an asset that does not exist, or by
\* anybody but the asset's creator, fails and leaves the whole pricing
\* configuration (prices, durations, royalties, variations, maxSupply,
\* sold count, forSale) of every asset unchanged.
C15_OnlyCreatorConfigures ==
  [][(/\ out'.fn \in PricingMutators
      /\ \/ ~registry.models[out'.args.id].exists
         \/ registry.models[out'.args.id].creator # out'.sender)
     => /\ out'.err # ""
        /\ marketplace' = marketplace
        /\ registry' = registry]_vars

\* a configured, registered asset on which somebody else's call has failed
C15_Witness ==
  /\ out.fn \in PricingMutators
  /\ out.err = "Marketplace: Not model creator"
  /\ registry.models[out.args.id].exists
  /\ marketplace.licenseConfigs[out.args.id] # NoLicenseConfig
  /\ marketplace.variations[out.args.id] # <<>>

(* ------------------------------- C16 ---------------------------------- *)

\* C16: creator, creation timestamp and content reference of a registered
\* asset never change; updateMetadata changes nothing but the metadata
\* reference and the update timestamp of its asset, toggleModelActive
\* nothing but the active flag of its asset.
C16_RegistrationFieldsKept ==
  [][/\ \A id \in ModelIds :
          registry.models[id].exists =>
            /\ registry'.models[id].exists
            /\ registry'.models[id].creator = registry.models[id].creator
            /\ registry'.models[id].createdAt = registry.models[id].createdAt
            /\ registry'.models[id].modelIPFS = registry.models[id].modelIPFS
     /\ out'.fn = "updateMetadata" =>
          /\ registry' =
               [registry EXCEPT
                  !.models[out'.args.id].metadataIPFS =
                     registry'.models[out'.args.id].metadataIPFS,
                  !.models[out'.args.id].updatedAt =
                     registry'.models[out'.args.id].updatedAt]
          /\ UNCHANGED <<marketplace, token, royaltyRegistry>>
     /\ out'.fn = "toggleModelActive" =>
          /\ registry' =
               [registry EXCEPT
                  !.models[out'.args.id].active = registry'.models[out'.args.id].active]
          /\ out'.err = "" =>
               registry'.models[out'.args.id].active = ~registry.models[out'.args.id].active
          /\ UNCHANGED <<marketplace, token, royaltyRegistry>>]_vars

\* an asset registered by alice that has since had its metadata updated at
\* a later time, been deactivated, and got a derivative
C16_Witness ==
  /\ registry.models[0].exists
  /\ registry.models[0].creator = "alice"
  /\ registry.models[0].modelIPFS = "QmModel"
  /\ registry.models[0].metadataIPFS = "QmMetaB"
  /\ registry.models[0].updatedAt > registry.models[0].createdAt
  /\ ~registry.models[0].active
  /\ registry.models[0].derivativeCount > 0

(* ------------------------------- C17 ---------------------------------- *)

\* the last call named asset m as the original of a derivative, and returned
LinkedTo(m) ==
  /\ out.err = ""
  /\ \/ out.fn = "registerDerivativeModel" /\ out.args.id = m
     \/ out.fn = "setDerivativeRoyalty" /\ out.args.originalModelId = m

C18_SetDerivativeRoyalty ==
  [][out'.fn = "setDerivativeRoyalty" =>
       LET a == out'.args IN
       IF /\ registry.models[a.id].exists
          /\ registry.models[a.originalModelId].exists
          /\ a.royaltyBps <= 2000
       THEN /\ out'.err = ""
            /\ royaltyRegistry'.derivativeRoyalties[a.id] =
                 [originalModelId |-> a.originalModelId,
                  originalCreator |-> registry.models[a.originalModelId].creator,
                  royaltyBps |-> a.royaltyBps, active |-> TRUE]
            /\ registry'.models[a.originalModelId].derivativeCount =
                 registry.models[a.originalModelId].derivativeCount + 1
       ELSE /\ out'.err # ""
            /\ UNCHANGED <<registry, marketplace, token, royaltyRegistry>>]_vars

(* ------------------------------- C19 ---------------------------------- *)

C20_PayDirectRoyalty ==
  [][out'.fn = "payDirectRoyalty" =>
       LET a == out'.args
           paymentId == royaltyRegistry.paymentIdCounter
       IN IF a.value = 0 \/ a.creator = NullAddr \/ a.creator = out'.sender
          THEN /\ out'.err # ""
               /\ royaltyRegistry' = royaltyRegistry
          ELSE /\ out'.err = ""
               /\ royaltyRegistry'.claimableRoyalties =
                    [royaltyRegistry.claimableRoyalties EXCEPT ![a.creator] = @ + a.value]
               /\ out'.transfers = <<>>
               /\ royaltyRegistry'.paymentIdCounter = paymentId + 1
               /\ royaltyRegistry'.royaltyPayments =
                    [royaltyRegistry.royaltyPayments EXCEPT
                       ![paymentId] =
                          [from |-> out'.sender, to |-> a.creator, amount |-> a.value,
                           modelId |-> 0, paymentType |-> "direct",
                           message |-> a.message, timestamp |-> now]]
               /\ royaltyRegistry'.creatorPayments =
                    [royaltyRegistry.creatorPayments EXCEPT
                       ![a.creator] = Append(@, paymentId)]]_vars

\* a tip paid while somebody else also holds a claimable balance
C20_Witness ==
  /\ out.fn = "payDirectRoyalty" /\ out.err = ""
  /\ royaltyRegistry.claimableRoyalties[out.args.creator] >= out.args.value
  /\ \E u \in Users : u # out.args.creator /\ royaltyRegistry.claimableRoyalties[u] > 0
  /\ royaltyRegistry.royaltyPayments[royaltyRegistry.paymentIdCounter - 1].message
       = "great work"

(* ------------------------------- C21 ---------------------------------- *)

\* C21: claimRoyalties by an identity whose claimable balance b is positive
\* transfers exactly b to that identity and sets its balance to 0, leaving
\* every other balance alone; with a balance of 0 it fails with "No
\* royalties to claim" and changes nothing.
C21_ClaimRoyalties ==
  [][out'.fn = "claimRoyalties" =>
       LET b == royaltyRegistry.claimableRoyalties[out'.sender] IN
       IF b > 0
       THEN /\ out'.err = ""
            /\ out'.transfers = <<[to |-> out'.sender, amount |-> b, kind |-> "claim"]>>
            /\ royaltyRegistry'.claimableRoyalties =
                 [royaltyRegistry.claimableRoyalties EXCEPT ![out'.sender] = 0]
            /\ royaltyRegistry'.balance = royaltyRegistry.balance - b
       ELSE /\ out'.err = "DerivativeRoyalty: No royalties to claim"
            /\ royaltyRegistry' = royaltyRegistry]_vars

\* a tip of 50 has been claimed by its creator while another identity still
\* holds a claimable balance
C21_Witness ==
  /\ out.fn = "claimRoyalties" /\ out.err = ""
  /\ out.transfers = <<[to |-> out.sender, amount |-> 50, kind |-> "claim"]>>
  /\ royaltyRegistry.claimableRoyalties[out.sender] = 0
  /\ \E u \in Users : royaltyRegistry.claimableRoyalties[u] > 0

(* ------------------------------- C22 ---------------------------------- *)

AbortingOperations ==
  {"purchaseModel", "renewLicense", "burnForDownload", "payDerivativeRoyalty",
   "claimRoyalties", "setDerivativeRoyalty"}

Occurrences(tokens, tokenId) ==
  Cardinality({i \in 1 .. Len(tokens) : tokens[i] = tokenId})

\* tokens with the last element moved into the first slot holding tokenId
SwapAndPop(tokens, tokenId) ==
  LET slot == CHOOSE i \in 1 .. Len(tokens) :
                /\ tokens[i] = tokenId
                /\ \A j \in 1 .. i - 1 : tokens[j] # tokenId
  IN [i \in 1 .. Len(tokens) - 1 |-> IF i = slot THEN tokens[Len(tokens)] ELSE tokens[i]]

\* C23: a transfer of a burned record fails; a transfer of an un-burned
\* record by its owner moves the last element of the owner's index into the
\* record's slot, drops the last slot and appends the record to the
\* receiver's index; and in every state each issued, un-burned record is
\* held exactly once across all indexes, in the index of its owner.
C23_OwnerIndex ==
  /\ [][out'.fn = "transferFrom" =>
          LET id == out'.args.id
              from == out'.sender
              to == out'.args.to
          IN /\ Snapshot(id).burned => out'.err # "" /\ token' = token
             /\ out'.err = "" =>
                  /\ token.owners[id] = from
                  /\ token'.owners = [token.owners EXCEPT ![id] = to]
                  /\ token'.userTokens =
                       [[token.userTokens EXCEPT ![from] = SwapAndPop(@, id)]
                          EXCEPT ![to] = Append(@, id)]
             /\ (~Snapshot(id).burned /\ token.owners[id] = from /\ to # NullAddr) =>
                  out'.err = ""]_vars
  /\ [](\A id \in TokenIds :
          id < token.tokenIdCounter /\ ~Snapshot(id).burned =>
            /\ token.owners[id] \in Users
            /\ \A u \in Users :
                 Occurrences(token.userTokens[u], id) =
                   IF u = token.owners[id] THEN 1 ELSE 0)

\* a record has gone from bob to alice and back while bob holds another one
C23_Witness ==
  /\ out.fn = "transferFrom" /\ out.err = "" /\ out.args.to = "bob"
  /\ Len(token.userTokens["bob"]) = 2
  /\ token.userTokens["bob"][2] = 0
  /\ token.owners[0] = "bob" /\ token.owners[1] = "bob"

(* ------------------------------- C24 ---------------------------------- *)

\* C24: burnForDownload on an issued, un-burned record fails with "Not token
\* owner" when the caller is not its owner and with "License expired" when
\* the record has an expiry and now is past it, leaving the record un-burned
\* with an empty download key; otherwise it succeeds, and the record is
\* burned, holds a non-empty key and can be downloaded.
C24_BurnForDownload ==
  [][\A id \in TokenIds :
       (/\ out'.fn = "burnForDownload" /\ out'.args.id = id
        /\ id < token.tokenIdCounter /\ ~Snapshot(id).burned) =>
         LET expiresAt == Snapshot(id).license.expiresAt IN
         IF token.owners[id] # out'.sender
         THEN /\ out'.err = "ModelToken: Not token owner"
              /\ token' = token
              /\ ~Snapshot(id).burned' /\ Snapshot(id).downloadKey' = <<>>
         ELSE IF expiresAt # 0 /\ now > expiresAt
         THEN /\ out'.err = "ModelToken: License expired"
              /\ token' = token
              /\ ~Snapshot(id).burned' /\ Snapshot(id).downloadKey' = <<>>
         ELSE /\ out'.err = ""
              /\ Snapshot(id).burned' /\ Snapshot(id).downloadKey' # <<>>
              /\ canDownload(Before, id)']_vars

\* the owner of a lapsed record was refused its download
C24_Witness ==
  /\ out.fn = "burnForDownload" /\ out.err = "ModelToken: License expired"
  /\ token.owners[out.args.id] = out.sender
  /\ ~Snapshot(out.args.id).burned /\ Snapshot(out.args.id).downloadKey = <<>>
  /\ now > Snapshot(out.args.id).license.expiresAt

(* ------------------------------- C25 ---------------------------------- *)

\* C25: renewLicense fails, leaving every expiry and all storage as they
\* were and paying nobody, when the caller does not own the record, when the
\* record is burned, when it is perpetual (expiry 0) or when the value sent
\* is below the current price of the record's tier; and the expiry of an
\* issued perpetual record stays 0 under every operation.
C25_RenewRefused ==
  /\ [][\A id \in TokenIds :
          LET price == getLicensePrice(Before, Snapshot(id).modelId,
                                       Snapshot(id).license.licenseType)
          IN (/\ out'.fn = "renewLicense" /\ out'.args.id = id
              /\ \/ token.owners[id] # out'.sender
                 \/ Snapshot(id).burned
                 \/ Snapshot(id).license.expiresAt = 0
                 \/ price.err # ""
                 \/ out'.args.value < price.val) =>
               /\ out'.err # ""
               /\ token' = token
               /\ out'.transfers = <<>>
               /\ UNCHANGED <<registry, marketplace, royaltyRegistry>>]_vars
  /\ [][\A id \in TokenIds :
          id < token.tokenIdCounter /\ Snapshot(id).license.expiresAt = 0 =>
            Snapshot(id).license.expiresAt' = 0]_vars

\* the owner of a perpetual record offered the full price and was refused
C25_Witness ==
  /\ out.fn = "renewLicense" /\ out.err = "ModelToken: Cannot renew perpetual license"
  /\ token.owners[out.args.id] = out.sender
  /\ out.args.id < token.tokenIdCounter
  /\ Snapshot(out.args.id).license.expiresAt = 0
  /\ out.args.value = 100

(* ------------------------------- C26 ---------------------------------- *)

\* C26: a purchase at time t on a tier of duration D issues a record whose
\* expiry is t + D when D > 0 and 0 when D = 0.  For every issued record
\* with an expiry, isLicenseValid holds exactly while now <= expiry and
\* getLicenseTimeRemaining is expiry - now while now < expiry (D right after
\* the purchase) and 0 from the expiry on; for a record with expiry 0
\* isLicenseValid holds and getLicenseTimeRemaining is the largest integer.
C26_ExpiryAndValidity ==
  /\ [][\A id \in TokenIds :
          (out'.fn = "purchaseModel" /\ out'.err = "" /\ out'.args.tokenId = id) =>
            LET D == getLicenseDuration(Before, out'.args.id, out'.args.licenseType).val IN
            /\ Snapshot(id).license.expiresAt' = IF D > 0 THEN now + D ELSE 0
            /\ getLicenseTimeRemaining(Before, id)' = IF D > 0 THEN D ELSE "max"
            /\ isLicenseValid(Before, id)']_vars
  /\ [](\A id \in TokenIds :
          id < token.tokenIdCounter =>
            LET expiry == Snapshot(id).license.expiresAt IN
            IF expiry = 0
            THEN /\ isLicenseValid(Before, id)
                 /\ getLicenseTimeRemaining(Before, id) = "max"
            ELSE /\ isLicenseValid(Before, id) <=> now <= expiry
                 /\ getLicenseTimeRemaining(Before, id) =
                      IF now < expiry THEN expiry - now ELSE 0)

\* a record bought for one unit of time has lapsed while the first record
\* is in its last valid moment
C26_Witness ==
  /\ token.tokenIdCounter = 2
  /\ now = Snapshot(0).license.expiresAt /\ isLicenseValid(Before, 0)
  /\ \E id \in {1} :
       /\ Snapshot(id).license.duration > 0
       /\ Snapshot(id).license.expiresAt =
            Snapshot(id).purchasedAt + Snapshot(id).license.duration
       /\ now > Snapshot(id).license.expiresAt
       /\ ~isLicenseValid(Before, id)
       /\ getLicenseTimeRemaining(Before, id) = 0

(* ------------------------------- C27 ---------------------------------- *)

\* C27: setRoyalty fails, changing nothing, when the rate is over 2000 basis
\* points or the recipient is the null identity, and setDerivativeRoyalty
\* fails, changing nothing, when the rate is over 2000; so in every state
\* every asset's royalty rate and every derivative royalty rate is at most
\* 2000 and every royalty that has been set names a non-null recipient.
C27_RoyaltyCaps ==
  /\ [][(/\ out'.fn = "setRoyalty"
          /\ (out'.args.bps > MAX_ROYALTY_BPS \/ out'.args.recipient = NullAddr)) =>
          /\ out'.err # ""
          /\ UNCHANGED <<registry, marketplace, token, royaltyRegistry>>]_vars
  /\ [][(/\ out'.fn = "setDerivativeRoyalty"
          /\ out'.args.royaltyBps > MAX_DERIVATIVE_ROYALTY_BPS) =>
          /\ out'.err # ""
          /\ UNCHANGED <<registry, marketplace, token, royaltyRegistry>>]_vars
  /\ [](\A id \in Ids :
          /\ marketplace.royalties[id].bps <= 2000
          /\ marketplace.royalties[id] # NoRoyaltyInfo =>
               marketplace.royalties[id].recipient # NullAddr
          /\ royaltyRegistry.derivativeRoyalties[id].royaltyBps <= 2000
          /\ royaltyRegistry.derivativeRoyalties[id] # NoDerivativeRoyalty =>
               royaltyRegistry.derivativeRoyalties[id].originalCreator # NullAddr)

\* both rates stand at the cap and a rate over it has just been refused
C27_Witness ==
  /\ out.fn = "setRoyalty" /\ out.err = "Marketplace: Royalty too high"
  /\ marketplace.royalties[0] = [recipient |-> "bob", bps |-> 2000]
  /\ royaltyRegistry.derivativeRoyalties[0].royaltyBps = 2000
  /\ royaltyRegistry.derivativeRoyalties[0].originalCreator = "alice"

(* ------------------------------- C28 ---------------------------------- *)

\* C28: setMaxSupply by the creator of an asset fails with "Supply below
\* sold count", leaving maxSupply as it was, when the cap is nonzero and
\* below the asset's sold count; otherwise (cap 0, or cap at or over the
\* sold count) it sets maxSupply to the cap, whether that raises or lowers
\* the cap in force, and changes nothing else.
C28_SetMaxSupply ==
  [][\A id \in ModelIds :
       (/\ out'.fn = "setMaxSupply" /\ out'.args.id = id
        /\ registry.models[id].exists
        /\ registry.models[id].creator = out'.sender) =>
         LET cap == out'.args.maxSupply IN
         IF cap # 0 /\ cap < marketplace.soldCounts[id]
         THEN /\ out'.err = "Marketplace: Supply below sold count"
              /\ marketplace' = marketplace
         ELSE /\ out'.err = ""
              /\ marketplace' =
                   [marketplace EXCEPT !.maxSupplies[id] = cap]]_vars

\* with two records sold under a cap of 2, lowering the cap to 1 was refused
C28_Witness ==
  /\ out.fn = "setMaxSupply" /\ out.err = "Marketplace: Supply below sold count"
  /\ out.args.maxSupply = 1
  /\ marketplace.soldCounts[0] = 2
  /\ marketplace.maxSupplies[0] = 2

(* ------------------------------- C29 ---------------------------------- *)

\* the tiers and the variation lists getTotalPrice is asked about
TierInputs == LicenseTypes \cup {"indie", "enterprise"}
VariationListInputs ==
  {<<>>} \cup {<<a>> : a \in 0 .. MaxVariations}
         \cup {<<a, b>> : a, b \in 0 .. MaxVariations}

\* the sum of the prices of the variations listed from position i on
RECURSIVE ListedPrices(_, _, _)
ListedPrices(variations, variationIds, i) ==
  IF i > Len(variationIds) THEN 0
  ELSE variations[variationIds[i] + 1].price + ListedPrices(variations, variationIds, i + 1)

\* C29: getTotalPrice fails with "Invalid license type" for a tier that is
\* not one of the four; otherwise it goes through the list and fails at the
\* first id that is out of range ("Invalid variation ID") or names an
\* inactive variation ("Variation not active"); otherwise it returns the
\* tier's current price plus the price of every listed variation, an id
\* listed twice counting twice.
C29_GetTotalPrice ==
  \A id \in ModelIds, tier \in TierInputs, variationIds \in VariationListInputs :
    LET config == marketplace.licenseConfigs[id]
        variations == marketplace.variations[id]
        r == getTotalPrice(Before, id, tier, variationIds)
        OutOfRange(i) == variationIds[i] >= Len(variations)
        Inactive(i) == ~OutOfRange(i) /\ ~variations[variationIds[i] + 1].active
        Offending == {i \in 1 .. Len(variationIds) : OutOfRange(i) \/ Inactive(i)}
    IN IF tier \notin {"personal", "indie", "commercial", "enterprise"}
       THEN r.err = "Marketplace: Invalid license type"
       ELSE IF Offending # {}
       THEN LET first == CHOOSE i \in Offending : \A j \in Offending : i <= j IN
            r.err = IF OutOfRange(first) THEN "Marketplace: Invalid variation ID"
                    ELSE "Marketplace: Variation not active"
       ELSE /\ r.err = ""
            /\ r.val = (CASE tier = "personal" -> config.personalPrice
                          [] tier = "indie" -> config.indiePrice
                          [] tier = "commercial" -> config.commercialPrice
                          [] tier = "enterprise" -> config.enterprisePrice)
                       + ListedPrices(variations, variationIds, 1)

\* an active variation of price 5 on a commercial tier of price 300: listed
\* twice it is counted twice, and an id past it is out of range
C29_Witness ==
  /\ marketplace.licenseConfigs[0] = ConfigA
  /\ Len(marketplace.variations[0]) = 1
  /\ getTotalPrice(Before, 0, "commercial", <<0, 0>>) = Val(310)
  /\ getTotalPrice(Before, 0, "commercial", <<0, 1>>).err = "Marketplace: Invalid variation ID"
  /\ out.fn = "toggleVariationActive" /\ out.err = ""

(* ------------------------------- C30 ---------------------------------- *)

\* the assets that exist
Existing(models) == {id \in Ids : models[id].exists}

\* C30: registerModel fails, allocating no id and changing nothing, when
\* either reference is empty; otherwise the new asset gets the id equal to
\* the number of assets registered before it and no other asset is touched,
\* so the existing assets are exactly the ids below the counter and
\* getModelCount is their number.  registerDerivativeModel fails with "Model
\* does not exist", registering nothing, when the original does not exist,
\* and otherwise registers the next id and appends it to the original's
\* derivative list; no operation removes or rewrites an entry of a
\* derivative list.
C30_Registration ==
  /\ [][out'.fn = "registerModel" =>
          IF out'.args.modelIPFS = "" \/ out'.args.metadataIPFS = ""
          THEN /\ out'.err \in {"ModelRegistry: Model IPFS required",
                                 "ModelRegistry: Metadata IPFS required"}
               /\ registry' = registry
          ELSE /\ out'.err = ""
               /\ registry'.modelIdCounter = registry.modelIdCounter + 1
               /\ Existing(registry'.models) =
                    Existing(registry.models) \cup {Cardinality(Existing(registry.models))}
               /\ registry'.models[registry.modelIdCounter].creator = out'.sender
               /\ \A id \in Existing(registry.models) :
                    registry'.models[id] = registry.models[id]]_vars
  /\ [][\A originalId \in ModelIds :
          out'.fn = "registerDerivativeModel" /\ out'.args.id = originalId =>
            IF ~registry.models[originalId].exists
            THEN /\ out'.err = "ModelRegistry: Model does not exist"
                 /\ registry' = registry
            ELSE /\ out'.err = ""
                 /\ Existing(registry'.models) =
                      Existing(registry.models) \cup {registry.modelIdCounter}
                 /\ registry'.modelDerivatives =
                      [registry.modelDerivatives EXCEPT
                         ![originalId] = Append(@, registry.modelIdCounter)]]_vars
  /\ [][\A id \in Ids :
          /\ Len(registry'.modelDerivatives[id]) >= Len(registry.modelDerivatives[id])
          /\ SubSeq(registry'.modelDerivatives[id], 1, Len(registry.modelDerivatives[id]))
               = registry.modelDerivatives[id]]_vars
  /\ [](/\ Existing(registry.models) = {id \in Ids : id < registry.modelIdCounter}
        /\ getModelCount(Before) = Cardinality(Existing(registry.models)))

\* bob's derivative of asset 0 has been registered as asset 1
C30_Witness ==
  /\ out.fn = "registerDerivativeModel" /\ out.err = ""
  /\ getModelCount(Before) = 2
  /\ registry.modelDerivatives[0] = <<1>>
  /\ registry.models[1].creator = "bob"
  /\ registry.models[0].creator = "alice"

(* ------------------------------- C31 ---------------------------------- *)

\* C31: updateMetadata and toggleModelActive fail, leaving the registry as
\* it was, with "Model does not exist" when the asset does not exist and
\* with "Not model creator" when the caller is not its creator;
\* updateMetadata by the creator fails with "Metadata IPFS required" on an
\* empty reference; toggleModelActive by the creator negates the active
\* flag and changes nothing else, so a second toggle restores it.
C31_CreatorOnlyUpdates ==
  [][\A id \in ModelIds :
       (out'.fn \in {"updateMetadata", "toggleModelActive"} /\ out'.args.id = id) =>
         IF ~registry.models[id].exists
         THEN /\ out'.err = "ModelRegistry: Model does not exist"
              /\ registry' = registry
         ELSE IF registry.models[id].creator # out'.sender
         THEN /\ out'.err = "ModelRegistry: Not model creator"
              /\ registry' = registry
         ELSE IF out'.fn = "updateMetadata"
         THEN IF out'.args.newMetadataIPFS = ""
              THEN /\ out'.err = "ModelRegistry: Metadata IPFS required"
                   /\ registry' = registry
              ELSE /\ out'.err = ""
                   /\ registry'.models[id].metadataIPFS = out'.args.newMetadataIPFS
         ELSE /\ out'.err = ""
              /\ registry' = [registry EXCEPT !.models[id].active = ~@]
              /\ toggleModelActive([Before EXCEPT !.registry = registry'], out'.sender, id)
                   .w.registry = registry]_vars

\* the creator has switched its asset off
C31_Witness ==
  /\ out.fn = "toggleModelActive" /\ out.err = ""
  /\ registry.models[out.args.id].creator = out.sender
  /\ ~registry.models[out.args.id].active

(* ------------------------------- C32 ---------------------------------- *)

\* the active variations of a list from position i on, in list order
RECURSIVE ActiveFrom(_, _)
ActiveFrom(variations, i) ==
  IF i > Len(variations) THEN <<>>
  ELSE (IF variations[i].active THEN <<variations[i]>> ELSE <<>>)
       \o ActiveFrom(variations, i + 1)

\* a variation with its active flag left out
Listed(v) == [name |-> v.name, price |-> v.price, metadataIPFS |-> v.metadataIPFS]

\* C32: addVariation by the creator appends an active variation at the
\* index equal to the previous length; toggleVariationActive by the creator
\* fails with "Invalid variation index" when the index is at or past the
\* length and otherwise negates the active flag of that variation only; no
\* operation removes, rewrites or reorders a variation; and
\* getActiveVariations returns exactly the active variations in list order.
C32_VariationList ==
  /\ [][\A id \in ModelIds :
          LET variations == marketplace.variations[id] IN
          /\ (out'.fn = "addVariation" /\ out'.args.id = id /\ out'.err = "") =>
               marketplace' =
                 [marketplace EXCEPT !.variations[id] =
                    Append(@, [name |-> out'.args.name, price |-> out'.args.price,
                               metadataIPFS |-> "QmVar", active |-> TRUE])]
          /\ (/\ out'.fn = "toggleVariationActive" /\ out'.args.id = id
              /\ registry.models[id].exists
              /\ registry.models[id].creator = out'.sender) =>
               IF out'.args.index >= Len(variations)
               THEN /\ out'.err = "Marketplace: Invalid variation index"
                    /\ marketplace' = marketplace
               ELSE /\ out'.err = ""
                    /\ marketplace' =
                         [marketplace EXCEPT
                            !.variations[id][out'.args.index + 1].active = ~@]
          /\ Len(marketplace'.variations[id]) >= Len(variations)
          /\ \A i \in 1 .. Len(variations) :
               Listed(marketplace'.variations[id][i]) = Listed(variations[i])]_vars
  /\ [](\A id \in ModelIds :
          getActiveVariations(Before, id) = ActiveFrom(marketplace.variations[id], 1))

\* of two variations the first has been switched off: only the second is
\* returned
C32_Witness ==
  /\ out.fn = "toggleVariationActive" /\ out.err = ""
  /\ Len(marketplace.variations[0]) = 2
  /\ marketplace.variations[0][1].name = "gold" /\ ~marketplace.variations[0][1].active
  /\ marketplace.variations[0][2].name = "chrome" /\ marketplace.variations[0][2].active
  /\ getActiveVariations(Before, 0) = <<marketplace.variations[0][2]>>

(* ------------------------------- C33 ---------------------------------- *)

\* C33: payment ids are allocated 0, 1, 2, ... and a record, once written,
\* is never rewritten; every payee's history only grows at its end, holds
\* its payments in the order of their ids, and every allocated id is in the
\* history of the payee it names; and for every payee the sum of the
\* amounts of its history equals its claimable balance plus all it has
\* claimed so far.
C33_PaymentHistory ==
  /\ [][/\ royaltyRegistry'.paymentIdCounter >= royaltyRegistry.paymentIdCounter
        /\ \A id \in PaymentIds :
             id < royaltyRegistry.paymentIdCounter =>
               royaltyRegistry'.royaltyPayments[id] = royaltyRegistry.royaltyPayments[id]
        /\ \A u \in Users :
             LET history == royaltyRegistry.creatorPayments[u]
                 history2 == royaltyRegistry'.creatorPayments[u]
             IN /\ Len(history2) >= Len(history)
                /\ SubSeq(history2, 1, Len(history)) = history
                /\ \A i \in Len(history) + 1 .. Len(history2) :
                     /\ history2[i] >= royaltyRegistry.paymentIdCounter
                     /\ history2[i] < royaltyRegistry'.paymentIdCounter]_vars
  /\ [](/\ \A u \in Users :
             LET history == royaltyRegistry.creatorPayments[u] IN
             /\ \A i, j \in 1 .. Len(history) : i < j => history[i] < history[j]
             /\ \A i \in 1 .. Len(history) :
                  royaltyRegistry.royaltyPayments[history[i]].to = u
             /\ getTotalRoyaltiesEarned(Before, u) =
                  royaltyRegistry.claimableRoyalties[u] + claimed[u]
        /\ \A id \in PaymentIds :
             id < royaltyRegistry.paymentIdCounter =>
               \E u \in Users :
                 \E i \in 1 .. Len(royaltyRegistry.creatorPayments[u]) :
                   royaltyRegistry.creatorPayments[u][i] = id)

\* a payee with two payments in its history has claimed the first and
\* holds the second
C33_Witness ==
  \E u \in Users :
    /\ Len(royaltyRegistry.creatorPayments[u]) = 2
    /\ claimed[u] > 0
    /\ royaltyRegistry.claimableRoyalties[u] > 0
    /\ getTotalRoyaltiesEarned(Before, u) > claimed[u]

(* ------------------------------- C34 ---------------------------------- *)

\* C34: a derivative royalty that the administrator has deactivated (it has
\* been set, and is inactive) stays inactive under every operation of an
\* identity other than the administrator, and payDerivativeRoyalty for it
\* keeps failing with "No derivative royalty set".
C34_DeactivatedStaysInactive ==
  [][\A d \in ModelIds :
       (/\ royaltyRegistry.derivativeRoyalties[d].originalCreator # NullAddr
        /\ ~royaltyRegistry.derivativeRoyalties[d].active
        /\ out'.sender # Admin) =>
         /\ ~royaltyRegistry'.derivativeRoyalties[d].active
         /\ (out'.fn = "payDerivativeRoyalty" /\ out'.args.id = d) =>
              out'.err = "DerivativeRoyalty: No derivative royalty set"]_vars

(* ------------------------------- C35 ---------------------------------- *)

\* the sum of the claimable balances of the identities in S
RECURSIVE ClaimableOf(_)
ClaimableOf(S) ==
  IF S = {} THEN 0
  ELSE LET u == CHOOSE x \in S : TRUE
       IN royaltyRegistry.claimableRoyalties[u] + ClaimableOf(S \ {u})

\* C35: between transactions the funds held by the royalty ledger equal the
\* sum of all claimable balances, whatever payments and claims were made.
C35_RoyaltyLedgerSolvent ==
  royaltyRegistry.balance = ClaimableOf(DOMAIN royaltyRegistry.claimableRoyalties)

\* the ledger holds the royalty of a sale for one payee and a tip for another
C35_Witness ==
  /\ out.fn = "payDerivativeRoyalty" /\ out.err = ""
  /\ royaltyRegistry.claimableRoyalties["alice"] > 0
  /\ royaltyRegistry.claimableRoyalties["bob"] > 0
  /\ royaltyRegistry.balance =
       royaltyRegistry.claimableRoyalties["alice"] + royaltyRegistry.claimableRoyalties["bob"]

(* ------------------------------- C36 ---------------------------------- *)

IssuedFor(modelId) ==
  {tokenId \in TokenIds :
     tokenId < token.tokenIdCounter /\ Snapshot(tokenId).modelId = modelId}

\* C37: for every asset, maxSupply is 0 or the sold count is at most
\* maxSupply, and the sold count is the number of license records issued
\* for the asset.
C37_SoldCountIsRecords ==
  \A id \in ModelIds :
    /\ marketplace.maxSupplies[id] = 0
         \/ marketplace.soldCounts[id] <= marketplace.maxSupplies[id]
    /\ marketplace.soldCounts[id] = Cardinality(IssuedFor(id))

(* ------------------------------- C38 ---------------------------------- *)

PurchaseShare(modelId, totalPrice) ==
  (totalPrice * royaltyInfo(Before, modelId, totalPrice).royaltyAmount) \div 10000

C40_RenewWithinPrice ==
  /\ out.fn = "renewLicense" => out.err # "Panic: arithmetic underflow"
  /\ \A id \in TokenIds :
       id < token.tokenIdCounter => Snapshot(id).royaltyBpsAtPurchase <= 10000

====
